---- MODULE Spec2Model ----
(***************************************************************************)
(* Register allocation and subroutine emission of the MiniDecaf compiler   *)
(* back end: BruteRegAlloc (backend/reg/bruteregalloc.py) driving a        *)
(* RiscvSubroutineEmitter (backend/riscv/riscvasmemitter.py).              *)
(*                                                                         *)
(* The allocator is fed basic blocks of native instruction records whose   *)
(* per-location liveIn/liveOut sets satisfy the liveness equation          *)
(*   liveIn = getRead(instr) \cup (liveOut \ getWritten(instr)).           *)
(* The emitted instructions of each step are replayed on a small symbolic  *)
(* machine (registers and frame words carry the temp whose value they      *)
(* hold) so that statements about the emitted code can be checked.         *)
(***************************************************************************)
EXTENDS Integers, Sequences, FiniteSets, TLC

----------------------------------------------------------------------------
(* Bounds of the exploration *)

MaxFuncs == 2        \* functions compiled one after another by one allocator
MaxLocs == 2         \* locations (instructions) allocated, in total
MaxArrays == 1       \* local arrays per function

----------------------------------------------------------------------------
(* Register roster (utils/riscv.py): argument registers are caller-saved,  *)
(* allocatable = caller-saved followed by callee-saved.                    *)

ArgRegs == <<"a0", "a1", "a2", "a3", "a4", "a5", "a6", "a7">>
CallerSaved == <<"t0">> \o ArgRegs
CalleeSaved == <<"s1">>
AllocatableRegs == CallerSaved \o CalleeSaved

Range(f) == {f[i] : i \in DOMAIN f}
Regs == Range(AllocatableRegs)
NumAlloc == Len(AllocatableRegs)
NumCS == Len(CalleeSaved)

NoReg == "none"
NoTemp == -1
NoOff == -1

\* Temps are identified by their index.  Parameters of a function with np
\* parameters are the temps 0..np-1 (TACGen.transform takes them first).
MaxTemp == 11
Temps == 0..MaxTemp

\* number of arguments passed in registers (the literal 8 of the slices)
NumArgRegs == 8

Min(a, b) == IF a < b THEN a ELSE b
Max(a, b) == IF a > b THEN a ELSE b

----------------------------------------------------------------------------
(* Operands of an instruction: a temp, or a machine register put there by  *)
(* the selector (Move(A0, value)) or by an earlier toNative.               *)

Tm(t) == [isReg |-> FALSE, reg |-> NoReg, temp |-> t]
Rg(r) == [isReg |-> TRUE, reg |-> r, temp |-> NoTemp]

TempsOf(ops) == {ops[i].temp : i \in {j \in DOMAIN ops : ~ops[j].isReg}}

\* variant: getRead returns the indices of the destinations
getRead_Dsts(instr) == TempsOf(instr.dsts)

\* TACInstr.getRead / getWritten
getRead(instr) == TempsOf(instr.srcs)
getWritten(instr) == TempsOf(instr.dsts)

----------------------------------------------------------------------------
(* The allocator and its subroutine emitter as one record s:               *)
(*   bindings, occupied, temp, used, regIndex           (BruteRegAlloc)    *)
(*   nextLocalOffset, offsets, arraySPOffsets, np, buf  (subroutine emitter)*)
(*   err: IllegalArgumentException was raised                              *)
(*   bound: the registers bind was called on; deltas: the arguments of the *)
(*   changeOffset calls (both are history, no code reads them)             *)
(*   ret: the value returned by the last allocRegFor                       *)

\* RiscvSubroutineEmitter.paramFPOffsets
isFPParam(s, t) == t >= NumArgRegs /\ t < s.np

\* variant: the offsets start one word above FP
paramFPOffsets_OneWordUp(t) == 4 * (t - NumArgRegs) + 4

paramFPOffsets(t) == 4 * (t - NumArgRegs)

emit(s, ni) == [s EXCEPT !.buf = Append(@, ni)]

\* BruteRegAlloc.bind
bind(s, t, r) ==
    [s EXCEPT !.used[r] = TRUE,
              !.bindings[t] = r,
              !.occupied[r] = TRUE,
              !.temp[r] = t,
              !.bound = @ \cup {r}]

\* BruteRegAlloc.unbind
unbind(s, t) ==
    IF s.bindings[t] # NoReg
    THEN [s EXCEPT !.occupied[s.bindings[t]] = FALSE,
                   !.bindings[t] = NoReg]
    ELSE s

\* RiscvSubroutineEmitter.changeOffset
changeOffset(s, delta) ==
    [s EXCEPT !.nextLocalOffset = @ + delta,
              !.offsets = [t \in Temps |-> IF @[t] = NoOff THEN NoOff ELSE @[t] + delta],
              !.arraySPOffsets = [i \in DOMAIN @ |-> @[i] + delta],
              !.deltas = Append(@, delta)]

\* variant: a new slot does not advance nextLocalOffset
emitStoreToStack_SameSlot(s, r) ==
    IF s.err THEN s ELSE
    LET t == s.temp[r]
        s1 == IF s.offsets[t] = NoOff
              THEN [s EXCEPT !.offsets[t] = s.nextLocalOffset]
              ELSE s
    IN emit(s1, [op |-> "sw", reg |-> r, base |-> "sp", off |-> s1.offsets[t],
                 temp |-> t, why |-> "spill"])

\* RiscvSubroutineEmitter.emitStoreToStack
emitStoreToStack(s, r) ==
    IF s.err THEN s ELSE
    LET t == s.temp[r]
        s1 == IF s.offsets[t] = NoOff
              THEN [s EXCEPT !.offsets[t] = s.nextLocalOffset,
                             !.nextLocalOffset = @ + 4]
              ELSE s
    IN emit(s1, [op |-> "sw", reg |-> r, base |-> "sp", off |-> s1.offsets[t],
                 temp |-> t, why |-> "spill"])

\* variant: a stack-passed parameter is always read from its FP offset
emitLoadFromStack_FPFirst(s, r, t) ==
    IF s.err THEN s ELSE
    IF isFPParam(s, t)
    THEN emit(s, [op |-> "lw", reg |-> r, base |-> "fp", off |-> paramFPOffsets(t),
                  temp |-> t, why |-> "reload", hadSlot |-> FALSE])
    ELSE IF s.offsets[t] = NoOff
         THEN [s EXCEPT !.err = TRUE]
         ELSE emit(s, [op |-> "lw", reg |-> r, base |-> "sp", off |-> s.offsets[t],
                       temp |-> t, why |-> "reload", hadSlot |-> TRUE])

\* RiscvSubroutineEmitter.emitLoadFromStack
emitLoadFromStack(s, r, t) ==
    IF s.err THEN s ELSE
    IF s.offsets[t] = NoOff
    THEN IF ~isFPParam(s, t)
         THEN [s EXCEPT !.err = TRUE]
         ELSE emit(s, [op |-> "lw", reg |-> r, base |-> "fp", off |-> paramFPOffsets(t),
                       temp |-> t, why |-> "reload", hadSlot |-> FALSE])
    ELSE emit(s, [op |-> "lw", reg |-> r, base |-> "sp", off |-> s.offsets[t],
                  temp |-> t, why |-> "reload", hadSlot |-> TRUE])

\* variant: the scan takes the first register whatever temp it holds
freeIndex_AnyTemp(s, live) ==
    LET C == {i \in 1..NumAlloc :
                 \/ ~s.occupied[AllocatableRegs[i]]
                 \/ s.temp[AllocatableRegs[i]] \in Temps}
    IN IF C = {} THEN 0 ELSE CHOOSE i \in C : \A j \in C : i <= j

\* first allocatable register that is unoccupied or whose temp is not live
\* (0 when there is none): the scan of allocRegFor
freeIndex(s, live) ==
    LET C == {i \in 1..NumAlloc :
                 \/ ~s.occupied[AllocatableRegs[i]]
                 \/ s.temp[AllocatableRegs[i]] \notin live}
    IN IF C = {} THEN 0 ELSE CHOOSE i \in C : \A j \in C : i <= j

\* variant: the round-robin cursor does not advance
allocRegFor_NoAdvance(s, t, isRead, live) ==
    IF s.err THEN s
    ELSE IF s.bindings[t] # NoReg THEN [s EXCEPT !.ret = s.bindings[t]]
    ELSE LET fi == freeIndex(s, live) IN
      IF fi # 0
      THEN LET reg == AllocatableRegs[fi]
               s1 == IF isRead THEN emitLoadFromStack(s, reg, t) ELSE s
               s2 == IF s1.occupied[reg] THEN unbind(s1, s1.temp[reg]) ELSE s1
               s3 == bind(s2, t, reg)
           IN IF s1.err THEN s1 ELSE [s3 EXCEPT !.ret = reg]
      ELSE LET reg == AllocatableRegs[s.regIndex + 1]
               s2 == emitStoreToStack(s, reg)
               s3 == unbind(s2, s2.temp[reg])
               s4 == bind(s3, t, reg)
               s5 == IF isRead THEN emitLoadFromStack(s4, reg, t) ELSE s4
           IN [s5 EXCEPT !.ret = reg]

\* BruteRegAlloc.allocRegFor; the chosen register is left in s.ret
allocRegFor(s, t, isRead, live) ==
    IF s.err THEN s
    ELSE IF s.bindings[t] # NoReg THEN [s EXCEPT !.ret = s.bindings[t]]
    ELSE LET fi == freeIndex(s, live) IN
      IF fi # 0
      THEN LET reg == AllocatableRegs[fi]
               s1 == IF isRead THEN emitLoadFromStack(s, reg, t) ELSE s
               s2 == IF s1.occupied[reg] THEN unbind(s1, s1.temp[reg]) ELSE s1
               s3 == bind(s2, t, reg)
           IN IF s1.err THEN s1 ELSE [s3 EXCEPT !.ret = reg]
      ELSE LET reg == AllocatableRegs[s.regIndex + 1]
               s1 == [s EXCEPT !.regIndex = (s.regIndex + 1) % NumAlloc]
               s2 == emitStoreToStack(s1, reg)
               s3 == unbind(s2, s2.temp[reg])
               s4 == bind(s3, t, reg)
               s5 == IF isRead THEN emitLoadFromStack(s4, reg, t) ELSE s4
           IN [s5 EXCEPT !.ret = reg]


\* TACInstr.toNative: the native record (the instruction rendered with the
\* registers in place of its operands), and the instruction object as the
\* call leaves it (oldDsts/oldSrcs are taken from the arguments, so the
\* "restore" writes the register lists back into the instruction)
toNative(instr, dstRegs, srcRegs) ==
    [native |-> [instr EXCEPT !.dsts = dstRegs, !.srcs = srcRegs],
     instr |-> [instr EXCEPT !.dsts = [i \in DOMAIN dstRegs |-> Rg(dstRegs[i])],
                             !.srcs = [i \in DOMAIN srcRegs |-> Rg(srcRegs[i])]]]

\* the two operand loops of allocForLoc
RECURSIVE allocOps(_, _, _, _, _, _)
allocOps(s, ops, i, isRead, live, acc) ==
    IF i > Len(ops) THEN [s |-> s, regs |-> acc]
    ELSE IF ops[i].isReg
         THEN allocOps(s, ops, i + 1, isRead, live, Append(acc, ops[i].reg))
         ELSE LET s1 == allocRegFor(s, ops[i].temp, isRead, live)
              IN allocOps(s1, ops, i + 1, isRead, live, Append(acc, s1.ret))

\* allocForLoc line 153: emitNative(instr.toNative(dstRegs, srcRegs)), with a
\* the result of the source loop and b the result of the destination loop.
\* The emitted record carries, beside the native instruction, the operands
\* the registers were resolved from; s.instr is the instruction object
\* afterwards.
emitToNative(instr, a, b) ==
    IF b.s.err THEN b.s
    ELSE [emit(b.s, [op |-> "native", ni |-> toNative(instr, b.regs, a.regs).native,
                     stemps |-> [i \in DOMAIN instr.srcs |-> instr.srcs[i].temp],
                     dtemps |-> [i \in DOMAIN instr.dsts |-> instr.dsts[i].temp],
                     sbound |-> [i \in DOMAIN instr.srcs |->
                                   instr.srcs[i].isReg
                                   \/ b.s.bindings[instr.srcs[i].temp] = a.regs[i]]])
          EXCEPT !.instr = toNative(instr, b.regs, a.regs).instr]

\* variant: the sources of the instruction count as dead for the destinations
allocDsts_SourcesDead(instr, a, live) ==
    emitToNative(instr, a,
                 allocOps(a.s, instr.dsts, 1, FALSE, live \ getRead(instr), <<>>))

\* allocForLoc lines 146-151: the destination loop, after the source loop a
allocDsts(instr, a, live) ==
    emitToNative(instr, a, allocOps(a.s, instr.dsts, 1, FALSE, live, <<>>))

\* BruteRegAlloc.allocForLoc
allocForLoc(s, instr, live) ==
    allocDsts(instr, allocOps(s, instr.srcs, 1, TRUE, live, <<>>), live)

----------------------------------------------------------------------------
(* allocForCall, in the order of its loops *)

\* lines 88-94: push the arguments, last first
RECURSIVE pushArgs(_, _, _, _)
pushArgs(s, args, i, liveIn) ==
    IF i = 0 \/ s.err THEN s
    ELSE LET s1 == allocRegFor(s, args[i], TRUE, liveIn)
             s2 == emit(s1, [op |-> "spadd", imm |-> -4])
             s3 == emit(s2, [op |-> "sw", reg |-> s1.ret, base |-> "sp", off |-> 0,
                             temp |-> args[i], why |-> "push"])
             s4 == changeOffset(s3, 4)
         IN IF s1.err THEN s1 ELSE pushArgs(s4, args, i - 1, liveIn)

\* lines 96-100: store the caller-save registers that hold a live-out temp
RECURSIVE saveCallerSave(_, _, _)
saveCallerSave(s, i, liveOut) ==
    IF i > Len(CallerSaved) THEN s
    ELSE LET reg == CallerSaved[i]
         IN IF s.occupied[reg] /\ s.temp[reg] \in liveOut
            THEN saveCallerSave([emitStoreToStack(s, reg) EXCEPT
                                    !.callerSaveRegs = Append(@, reg)], i + 1, liveOut)
            ELSE saveCallerSave(s, i + 1, liveOut)

\* lines 102-107: pop the first arguments into the argument registers
RECURSIVE popArgs(_, _, _)
popArgs(s, i, n) ==
    IF i >= Min(n, NumArgRegs) THEN s
    ELSE LET s1 == emit(s, [op |-> "lw", reg |-> ArgRegs[i + 1], base |-> "sp", off |-> 0,
                            temp |-> NoTemp, why |-> "pop", hadSlot |-> FALSE])
             s2 == emit(s1, [op |-> "spadd", imm |-> 4])
         IN popArgs(changeOffset(s2, -4), i + 1, n)

\* variant: the stack-passed arguments are freed without changeOffset
freeArgs_NoChangeOffset(s, n) ==
    IF n > NumArgRegs
    THEN emit(s, [op |-> "spadd", imm |-> 4 * (n - NumArgRegs)])
    ELSE s

\* lines 111-116: free the stack-passed arguments
freeArgs(s, n) ==
    IF n > NumArgRegs
    THEN LET size == 4 * (n - NumArgRegs)
         IN changeOffset(emit(s, [op |-> "spadd", imm |-> size]), -size)
    ELSE s

\* BruteRegAlloc.saveReturnValue
saveReturnValue(s, ret_v) ==
    LET tempForA0 == IF s.occupied["a0"] THEN s.temp["a0"] ELSE NoTemp
        s1 == IF s.occupied["a0"] THEN unbind(s, s.temp["a0"]) ELSE s
        s2 == bind(s1, ret_v, "a0")
        s3 == emitStoreToStack(s2, "a0")
        s4 == unbind(s3, s3.temp["a0"])
    IN IF tempForA0 # NoTemp THEN bind(s4, tempForA0, "a0") ELSE s4

\* lines 120-121: reload the saved caller-save registers
RECURSIVE loadCallerSave(_, _)
loadCallerSave(s, i) ==
    IF i > Len(s.callerSaveRegs) THEN s
    ELSE LET reg == s.callerSaveRegs[i]
         IN loadCallerSave(emitLoadFromStack(s, reg, s.temp[reg]), i + 1)


----------------------------------------------------------------------------
(* Block entry and exit of localAlloc, construction and finalisation of    *)
(* the subroutine emitter                                                  *)

\* RiscvSubroutineEmitter.__init__: the frame starts with the callee-save
\* area, FP and RA; local arrays follow in declaration order
RECURSIVE arrayOffsetsFrom(_, _, _)
arrayOffsetsFrom(sizes, i, off) ==
    IF i > Len(sizes) THEN <<>>
    ELSE <<off>> \o arrayOffsetsFrom(sizes, i + 1, off + sizes[i])

SumSeq(q) == LET RECURSIVE sm(_)
                 sm(i) == IF i > Len(q) THEN 0 ELSE q[i] + sm(i + 1)
             IN sm(1)

FrameBase == 4 * NumCS + 8

\* variant: the local arrays do not advance nextLocalOffset
emitSubroutine_ArraysNotReserved(s, nparams, sizes) ==
    [s EXCEPT !.nextLocalOffset = FrameBase,
              !.offsets = [t \in Temps |-> NoOff],
              !.np = nparams,
              !.arraySPOffsets = arrayOffsetsFrom(sizes, 1, FrameBase)]

\* variant: the frame starts without the words of FP and RA
emitSubroutine_NoFPRA(s, nparams, sizes) ==
    [s EXCEPT !.nextLocalOffset = 4 * NumCS + SumSeq(sizes),
              !.offsets = [t \in Temps |-> NoOff],
              !.np = nparams,
              !.arraySPOffsets = arrayOffsetsFrom(sizes, 1, 4 * NumCS)]

emitSubroutine(s, nparams, sizes) ==
    [s EXCEPT !.nextLocalOffset = FrameBase + SumSeq(sizes),
              !.offsets = [t \in Temps |-> NoOff],
              !.np = nparams,
              !.arraySPOffsets = arrayOffsetsFrom(sizes, 1, FrameBase)]

\* localAlloc lines 63-69
RECURSIVE bindParams(_, _)
bindParams(s, i) ==
    IF i >= Min(s.np, NumArgRegs) THEN s
    ELSE bindParams(bind(s, i, ArgRegs[i + 1]), i + 1)

localAllocEntry(s, bbId) ==
    LET s1 == [s EXCEPT !.bindings = [t \in Temps |-> NoReg],
                        !.occupied = [r \in Regs |-> FALSE]]
    IN IF bbId = 0 THEN bindParams(s1, 0) ELSE s1

\* localAlloc lines 79-81: store the live-out temps that are bound
\* (temps are visited in index order); s.liveOutStores lists the positions
\* of these stores in the buffer
RECURSIVE storeLiveOut(_, _, _)
storeLiveOut(s, t, liveOut) ==
    IF t > MaxTemp THEN s
    ELSE IF t \in liveOut /\ s.bindings[t] # NoReg
         THEN storeLiveOut([emitStoreToStack(s, s.bindings[t]) EXCEPT
                               !.liveOutStores = Append(@, Len(s.buf) + 1)],
                           t + 1, liveOut)
         ELSE storeLiveOut(s, t + 1, liveOut)

\* BasicBlock.allSeq: the locations of the main loop include the block's
\* terminator (the terminator is allocated in the loop and again at the exit)
allSeqHasTerminator == TRUE

\* localAlloc lines 79-84 with s1 the state after the main loop: the
\* live-out stores and the allocation of the terminator
allocTerminator(s1, liveIn, liveOut) ==
    IF s1.err THEN s1
    ELSE allocForLoc(storeLiveOut(s1, 0, liveOut), s1.instr, liveIn)

\* localAlloc lines 72-84 for the last location of a block that ends in a
\* jump, conditional jump or return: the terminator is allocated in the
\* main loop, the live-out temps are stored, and the terminator (the same
\* instruction object) is allocated again
localAllocExit(s, term, liveIn, liveOut) ==
    allocTerminator(IF allSeqHasTerminator THEN allocForLoc(s, term, liveIn)
                    ELSE [s EXCEPT !.instr = term],
                    liveIn, liveOut)

\* RiscvSubroutineEmitter.emitEnd: prologue and epilogue
RECURSIVE calleeSaveInstrs(_, _, _)
calleeSaveInstrs(s, i, o) ==
    IF i >= NumCS THEN <<>>
    ELSE (IF s.used[CalleeSaved[i + 1]]
          THEN <<[op |-> o, reg |-> CalleeSaved[i + 1], base |-> "sp", off |-> 4 * i]>>
          ELSE <<>>) \o calleeSaveInstrs(s, i + 1, o)

prologue(s) ==
    <<[op |-> "spadd", imm |-> -s.nextLocalOffset],
      [op |-> "sw", reg |-> "ra", base |-> "sp", off |-> 4 + 4 * NumCS],
      [op |-> "sw", reg |-> "fp", base |-> "sp", off |-> 4 * NumCS],
      [op |-> "fpupdate", imm |-> s.nextLocalOffset]>>
    \o calleeSaveInstrs(s, 0, "sw")

\* variant: the epilogue reloads FP and RA from each other's word
epilogue_Swapped(s) ==
    calleeSaveInstrs(s, 0, "lw")
    \o <<[op |-> "lw", reg |-> "fp", base |-> "sp", off |-> 4 + 4 * NumCS],
         [op |-> "lw", reg |-> "ra", base |-> "sp", off |-> 4 * NumCS],
         [op |-> "spadd", imm |-> s.nextLocalOffset]>>

epilogue(s) ==
    calleeSaveInstrs(s, 0, "lw")
    \o <<[op |-> "lw", reg |-> "fp", base |-> "sp", off |-> 4 * NumCS],
         [op |-> "lw", reg |-> "ra", base |-> "sp", off |-> 4 + 4 * NumCS],
         [op |-> "spadd", imm |-> s.nextLocalOffset]>>


----------------------------------------------------------------------------------------------------------------------------------------
(* Replay of emitted body instructions on a symbolic machine.              *)
(*   holds[r]  the temp whose current value register r holds (NoTemp: none)*)
(*   just[r]   the temp register r was last written for as a destination   *)
(*             or loaded for from its slot (NoTemp after a pop or a call)  *)
(*   mem       frame words written so far, keyed by their address relative *)
(*             to SP at the start of the body; words below SP are dropped  *)
(*   pushed    the argument each word pushed for a Call was pushed for     *)
(*   sp        SP relative to its value at the start of the body           *)
(*   wr        registers written by the body                               *)
(*   slotAt[t] address of the first store-to-stack of temp t               *)
(*   dirty     stack-passed parameters the body has written                *)
(*   opOK      every operand read and argument push found the temp's value *)
(*             in the register it was read through                         *)
(*   justOK    every operand read and argument push went through a         *)
(*             register that was written or loaded for that temp and is    *)
(*             bound to it                                                 *)
(*   stOK      every store-to-stack wrote the temp's value                 *)
(*   addrOK    every store-to-stack and load of a temp from the frame      *)
(*             addressed the temp's first slot                             *)
(*   fpOK      every load of a stack-passed parameter came from the slot   *)
(*             if it had one and from FP + 4k otherwise                    *)

Put(f, a, v) == [x \in DOMAIN f \cup {a} |-> IF x = a THEN v ELSE f[x]]
Get(f, a) == IF a \in DOMAIN f THEN f[a] ELSE NoTemp
Above(f, a) == [x \in {y \in DOMAIN f : y >= a} |-> f[x]]

\* a copy of a temp in D is out of date once the temps in D are written
Stale(v, D) == IF v \in D THEN NoTemp ELSE v

\* the word at FP + off of a callee: the caller left argument 8 + off/4 there
FPWord(np, off) == IF off >= 0 /\ off % 4 = 0 /\ NumArgRegs + off \div 4 < np
                   THEN NumArgRegs + off \div 4 ELSE NoTemp

Exec1(m, x, np) ==
    CASE x.op = "spadd" ->
           [m EXCEPT !.sp = @ + x.imm, !.mem = Above(@, m.sp + x.imm),
                     !.pushed = Above(@, m.sp + x.imm)]
      [] x.op = "sw" ->
           LET a == m.sp + x.off
               first == x.why = "spill" /\ m.slotAt[x.temp] = NoOff
           IN [m EXCEPT !.mem = Put(@, a, m.holds[x.reg]),
                        !.pushed = IF x.why = "push" THEN Put(@, a, x.temp) ELSE @,
                        !.opOK = @ /\ (x.why = "push" => m.holds[x.reg] = x.temp),
                        !.justOK = @ /\ (x.why = "push" => m.just[x.reg] = x.temp),
                        !.stOK = @ /\ (x.why = "spill" => m.holds[x.reg] = x.temp),
                        !.slotAt = IF first THEN [@ EXCEPT ![x.temp] = a] ELSE @,
                        !.addrOK = @ /\ (x.why = "spill" /\ ~first => a = m.slotAt[x.temp])]
      [] x.op = "lw" ->
           LET a == m.sp + x.off
               isFP == x.why = "reload" /\ x.temp >= NumArgRegs /\ x.temp < np
               w == FPWord(np, x.off)
               fromSlot == x.base = "sp" /\ a = m.slotAt[x.temp]
               fromFP == x.base = "fp" /\ x.temp >= NumArgRegs /\ x.temp < np
                            /\ x.off = 4 * (x.temp - NumArgRegs)
           IN [m EXCEPT !.holds[x.reg] = IF x.base = "sp" THEN Get(m.mem, a)
                                         ELSE IF w \in m.dirty THEN NoTemp ELSE w,
                        !.just[x.reg] = IF x.why = "reload" /\ (fromSlot \/ fromFP)
                                        THEN x.temp ELSE NoTemp,
                        !.wr = @ \cup {x.reg},
                        !.addrOK = @ /\ (x.why = "reload" /\ x.base = "sp" => fromSlot),
                        !.fpOK = @ /\ (isFP => IF m.slotAt[x.temp] = NoOff
                                               THEN fromFP ELSE fromSlot)]
      [] x.op = "native" ->
           LET ok == \A i \in DOMAIN x.stemps :
                        x.stemps[i] # NoTemp => m.holds[x.ni.srcs[i]] = x.stemps[i]
               jok == \A i \in DOMAIN x.stemps :
                        x.stemps[i] # NoTemp =>
                           m.just[x.ni.srcs[i]] = x.stemps[i] /\ x.sbound[i]
               D == {x.dtemps[i] : i \in DOMAIN x.dtemps} \ {NoTemp}
               isDst(r) == \E i \in DOMAIN x.ni.dsts : x.ni.dsts[i] = r
               dstTemp(r) == x.dtemps[CHOOSE i \in DOMAIN x.ni.dsts : x.ni.dsts[i] = r]
               m1 == [m EXCEPT !.mem = [a \in DOMAIN @ |-> Stale(@[a], D)],
                               !.dirty = @ \cup {t \in D : t >= NumArgRegs /\ t < np},
                               !.opOK = @ /\ ok,
                               !.justOK = @ /\ jok]
           IN IF x.ni.kind = "CALL"
              THEN [m1 EXCEPT !.atCall = [holds |-> m.holds, mem |-> m.mem,
                                          pushed |-> m.pushed, sp |-> m.sp],
                              !.holds = [r \in Regs |->
                                           IF r = "a0" THEN x.dtemps[1]
                                           ELSE IF r \in Range(CallerSaved) THEN NoTemp
                                           ELSE Stale(@[r], D)],
                              !.just = [r \in Regs |->
                                          IF isDst(r) THEN dstTemp(r)
                                          ELSE IF r \in Range(CallerSaved) THEN NoTemp
                                          ELSE @[r]],
                              !.mem = Above(@, m.sp),
                              !.wr = @ \cup Range(CallerSaved) \cup {"ra"}]
              ELSE [m1 EXCEPT !.holds = [r \in Regs |-> IF isDst(r) THEN dstTemp(r)
                                                        ELSE Stale(@[r], D)],
                              !.just = [r \in Regs |-> IF isDst(r) THEN dstTemp(r) ELSE @[r]],
                              !.wr = @ \cup Range(x.ni.dsts)]

RECURSIVE Exec(_, _, _, _)
Exec(m, b, i, np) == IF i > Len(b) THEN m ELSE Exec(Exec1(m, b[i], np), b, i + 1, np)

\* machine at the entry of a basic block: spill slots hold their temps;
\* in block 0 the argument registers hold the first parameters
EntryMachine(s, bbId, m) ==
    LET param(r) == IF bbId = 0 /\ \E i \in 1..Min(s.np, NumArgRegs) : ArgRegs[i] = r
                    THEN (CHOOSE i \in 1..NumArgRegs : ArgRegs[i] = r) - 1
                    ELSE NoTemp
    IN [m EXCEPT !.holds = [r \in Regs |-> param(r)],
                 !.just = [r \in Regs |-> param(r)],
                 !.mem = [a \in {s.offsets[t] : t \in {u \in Temps : s.offsets[u] # NoOff}} |->
                            CHOOSE t \in Temps : s.offsets[t] = a],
                 !.sp = 0]

(* Replay of prologue, body effect and epilogue on the registers a callee  *)
(* must preserve.  A value is the function-entry value of a register       *)
(* ("in"), a value written by the body ("body"), an address relative to SP *)
(* at function entry ("addr") or unknown ("junk").                         *)
Val(k, r, n) == [k |-> k, r |-> r, n |-> n]
Preserved == Range(CalleeSaved) \cup {"ra", "fp"}

Frame1(f, x) ==
    CASE x.op = "spadd" -> [f EXCEPT !.sp = @ + x.imm]
      [] x.op = "fpupdate" -> [f EXCEPT !.val["fp"] = Val("addr", "", f.sp + x.imm)]
      [] x.op = "sw" -> [f EXCEPT !.mem = Put(@, f.sp + x.off, f.val[x.reg])]
      [] x.op = "lw" -> [f EXCEPT !.val[x.reg] =
                            IF f.sp + x.off \in DOMAIN f.mem
                            THEN f.mem[f.sp + x.off] ELSE Val("junk", "", 0)]

RECURSIVE FrameExec(_, _, _)
FrameExec(f, b, i) == IF i > Len(b) THEN f ELSE FrameExec(Frame1(f, b[i]), b, i + 1)

\* the body between prologue and epilogue: it writes the registers in wr,
\* moves SP by bodySp and stores to the frame words in bodyMem (addresses
\* relative to SP after the prologue)
BodyEffect(f, wr, bodySp, bodyMem) ==
    [f EXCEPT !.val = [r \in Preserved |-> IF r \in wr THEN Val("body", r, 0) ELSE @[r]],
              !.sp = @ + bodySp,
              !.mem = [a \in DOMAIN @ |->
                         IF a - f.sp \in bodyMem THEN Val("body", "", 0) ELSE @[a]]]

FrameRun(s, m) ==
    LET f0 == [sp |-> 0, val |-> [r \in Preserved |-> Val("in", r, 0)],
               mem |-> [a \in {} |-> Val("junk", "", 0)]]
        f1 == FrameExec(f0, prologue(s), 1)
        f2 == BodyEffect(f1, m.wr, m.sp, DOMAIN m.mem)
    IN [afterPrologue |-> f1, atRet |-> FrameExec(f2, epilogue(s), 1)]


----------------------------------------------------------------------------
(* State *)

VARIABLES
    bindings, occupied, temp, used, regIndex,           \* BruteRegAlloc
    nextLocalOffset, offsets, arraySPOffsets, np, buf,  \* subroutine emitter; buf: the records emitted by the last step
    pc, loc, callerSaveRegs,      \* position in accept / localAlloc / allocForCall, the Call being allocated and its local list
    live, bbId,                   \* liveIn of the next location; id of the next block of the function
    bbLocs,                       \* locations of the current block so far
    nlocs, nfuncs,                \* locations and functions so far
    mach,                         \* symbolic machine of the emitted body
    hist,                         \* history of the function being allocated
    last,                         \* what emitEnd printed for the last function
    aux                           \* the front-end and selector passes (unused by accept)

vars == <<bindings, occupied, temp, used, regIndex, nextLocalOffset, offsets,
          arraySPOffsets, np, buf, pc, loc, callerSaveRegs, live, bbId, bbLocs,
          nlocs, nfuncs, mach, hist, last, aux>>

NoInstr == [kind |-> "NONE", dsts |-> <<>>, srcs |-> <<>>]
NoLoc == [args |-> <<>>, ret_v |-> NoTemp, liveIn |-> {}, liveOut |-> {}]
NoAux == [pass |-> "none"]

Cur == [bindings |-> bindings, occupied |-> occupied, temp |-> temp, used |-> used,
        regIndex |-> regIndex, nextLocalOffset |-> nextLocalOffset, offsets |-> offsets,
        arraySPOffsets |-> arraySPOffsets, np |-> np, callerSaveRegs |-> callerSaveRegs,
        buf |-> <<>>, err |-> FALSE, ret |-> NoReg, instr |-> NoInstr,
        bound |-> {}, deltas |-> <<>>, liveOutStores |-> <<>>]

Machine0 == [holds |-> [r \in Regs |-> NoTemp], just |-> [r \in Regs |-> NoTemp],
             mem |-> [a \in {} |-> NoTemp], pushed |-> [a \in {} |-> NoTemp],
             sp |-> 0, wr |-> {},
             slotAt |-> [t \in Temps |-> NoOff], dirty |-> {},
             opOK |-> TRUE, justOK |-> TRUE, stOK |-> TRUE, addrOK |-> TRUE, fpOK |-> TRUE,
             atCall |-> [holds |-> [r \in Regs |-> NoTemp], mem |-> [a \in {} |-> NoTemp],
                         pushed |-> [a \in {} |-> NoTemp], sp |-> 0]]

Hist0 == [bound |-> {}, delta |-> 0, callDeltas |-> <<>>, spMoves |-> <<>>,
          pre |-> [nextLocalOffset |-> 0, offsets |-> [t \in Temps |-> NoOff],
                   arraySPOffsets |-> <<>>, sp |-> 0],
          saved |-> <<>>, slotPos |-> [t \in Temps |-> NoOff], arrays |-> <<>>,
          liveOutStores |-> <<>>, stolen |-> {}, stealOK |-> TRUE]

Last0 == [frameSize |-> 0, savedCS |-> {}, bound |-> {}, wr |-> {},
          spAtRet |-> 0, fpInBody |-> Val("in", "fp", 0),
          val |-> [r \in Preserved |-> Val("in", r, 0)]]

\* BruteRegAlloc.__init__ (and the registers as utils/tac/reg.py creates them)
Allocator0 ==
    /\ bindings = [t \in Temps |-> NoReg]
    /\ occupied = [r \in Regs |-> FALSE]
    /\ temp = [r \in Regs |-> NoTemp]
    /\ used = [r \in Regs |-> FALSE]
    /\ regIndex = 0
    /\ nextLocalOffset = 0
    /\ offsets = [t \in Temps |-> NoOff]
    /\ arraySPOffsets = <<>>
    /\ np = 0
    /\ buf = <<>>
    /\ pc = "idle"
    /\ loc = NoLoc
    /\ callerSaveRegs = <<>>
    /\ live = {}
    /\ bbId = 0
    /\ nlocs = 0
    /\ bbLocs = 0
    /\ nfuncs = 0
    /\ mach = Machine0
    /\ hist = Hist0
    /\ last = Last0

Init == Allocator0 /\ aux = NoAux

\* the SP adjustments among emitted records
IsSpAdd(x) == x.op = "spadd"
SpMovesOf(b) == LET q == SelectSeq(b, IsSpAdd) IN [i \in DOMAIN q |-> q[i].imm]

\* the state after a step of the allocator that left the record t
Commit(t, m, nextpc) ==
    /\ bindings' = t.bindings
    /\ occupied' = t.occupied
    /\ temp' = t.temp
    /\ used' = t.used
    /\ regIndex' = t.regIndex
    /\ nextLocalOffset' = t.nextLocalOffset
    /\ offsets' = t.offsets
    /\ arraySPOffsets' = t.arraySPOffsets
    /\ np' = t.np
    /\ callerSaveRegs' = t.callerSaveRegs
    /\ buf' = t.buf
    /\ pc' = IF t.err THEN "aborted" ELSE nextpc
    /\ mach' = Exec(m, t.buf, 1, t.np)

\* history kept along every step: registers bound, SP delta in force,
\* frame position at which each spill slot was created, positions in buf
\* of the live-out stores of the step
\* temps the step t evicted without a store: bound before, unbound after,
\* and no store-to-stack of the temp among the emitted instructions
EvictedNoStore(t) ==
    {u \in Temps : bindings[u] # NoReg /\ t.bindings[u] = NoReg
                      /\ \A i \in DOMAIN t.buf :
                            ~(t.buf[i].op = "sw" /\ t.buf[i].why = "spill"
                              /\ t.buf[i].temp = u)}
\* temps the emitted instructions load from the frame, push or read
BufReads(b) ==
    {b[i].temp : i \in {j \in DOMAIN b : (b[j].op = "lw" /\ b[j].why = "reload")
                                          \/ (b[j].op = "sw" /\ b[j].why = "push")}}
    \cup (UNION {Range(b[i].stemps) : i \in {j \in DOMAIN b : b[j].op = "native"}}
          \ {NoTemp})
\* temps the emitted instructions write
BufWrites(b) ==
    UNION {Range(b[i].dtemps) : i \in {j \in DOMAIN b : b[j].op = "native"}} \ {NoTemp}

HistStep(h, t) ==
    LET d == h.delta + SumSeq(t.deltas)
    IN [h EXCEPT !.bound = @ \cup t.bound,
                 !.stolen = IF pc = "blocks" THEN {}
                            ELSE (@ \cup EvictedNoStore(t)) \ BufWrites(t.buf),
                 !.stealOK = @ /\ (pc # "blocks" => BufReads(t.buf) \cap h.stolen = {}),
                 !.delta = d,
                 !.callDeltas = @ \o t.deltas,
                 !.spMoves = @ \o SpMovesOf(t.buf),
                 !.liveOutStores = t.liveOutStores,
                 !.slotPos = [u \in Temps |->
                                IF @[u] = NoOff /\ t.offsets[u] # NoOff
                                THEN t.offsets[u] - d ELSE @[u]]]


----------------------------------------------------------------------------
(* Inputs: functions, blocks and instructions the allocator is given *)

ParamCounts == {0, 10}               \* numbers of parameters of a function
ArraySizes == {4, 8}                 \* sizes in bytes of local arrays
ArgCounts == {2, 10}                 \* numbers of arguments of a Call with arguments
OperandTemps == {0, 8, 9, 10}        \* temps instructions refer to
LivePatterns == {Temps, {}}          \* liveIn of a block: everything or nothing

ArrayLists == {<<>>} \cup UNION {[1..n -> ArraySizes] : n \in 1..MaxArrays}

\* sequential instructions with liveIn L (sources are live, a destination
\* is a temp that is not live or the instruction's only source)
SrcLists(L) == {<<>>} \cup {<<a>> : a \in L \cap OperandTemps}
                 \cup {<<a, b>> : a, b \in L \cap OperandTemps}
DstLists(L, srcs) ==
    (IF Len(srcs) = 2 THEN {<<>>} ELSE {})
    \cup {<<d>> : d \in (OperandTemps \ L) \cup (IF Len(srcs) = 1 THEN Range(srcs) ELSE {})}

SeqInstr(srcs, dsts) ==
    [kind |-> "SEQ", srcs |-> [i \in DOMAIN srcs |-> Tm(srcs[i])],
     dsts |-> [i \in DOMAIN dsts |-> Tm(dsts[i])]]

\* Riscv.Call as the selector builds it from the TAC Call: the return temp
\* is its destination, it has no sources, the arguments are carried aside
RiscvCall(ret_v) == [kind |-> "CALL", srcs |-> <<>>, dsts |-> <<Tm(ret_v)>>]

\* the liveness equation of a location
LiveEq(instr, liveIn, liveOut) ==
    liveIn = getRead(instr) \cup (liveOut \ getWritten(instr))

\* the temp a Call returns into is fresh (FuncVisitor.visitCall): the least
\* temp that is no parameter and was not referred to so far
Unseen(t) == t >= np /\ t \notin live /\ bindings[t] = NoReg /\ offsets[t] = NoOff
                /\ \A r \in Regs : temp[r] # t
FreshTemp == LET F == {t \in OperandTemps \cup {MaxTemp} : Unseen(t)}
             IN IF F = {} THEN NoTemp ELSE CHOOSE t \in F : \A u \in F : t <= u

Least(S) == CHOOSE x \in S : \A y \in S : x <= y
Greatest(S) == CHOOSE x \in S : \A y \in S : x >= y

\* argument lists of a Call: none, or n arguments that are alternately the
\* greatest and the second greatest temp of A
Second(A) == IF A = {Greatest(A)} THEN Greatest(A) ELSE Greatest(A \ {Greatest(A)})
ArgLists(A) == {<<>>} \cup (IF A = {} THEN {} ELSE
                   {[i \in 1..n |-> IF i % 2 = 1 THEN Greatest(A) ELSE Second(A)] :
                      n \in ArgCounts})

----------------------------------------------------------------------------
(* Actions *)

InputUnchanged == UNCHANGED <<bbId, nfuncs, last, aux>>

\* a step that is not part of a Call forgets the record of the last Call
NoCall(h) == [h EXCEPT !.callDeltas = <<>>, !.spMoves = <<>>, !.saved = <<>>,
                       !.pre = Hist0.pre]
NoCallMach(m) == [m EXCEPT !.atCall = Machine0.atCall]

\* accept, line 40: a subroutine emitter for the next function
Accept ==
    /\ pc = "idle"
    /\ nfuncs < MaxFuncs
    /\ nlocs < MaxLocs
    /\ \E n \in ParamCounts, sizes \in ArrayLists :
          LET t == emitSubroutine(Cur, n, sizes)
          IN /\ Commit(t, Machine0, "blocks")
             /\ hist' = [Hist0 EXCEPT !.arrays = sizes]
    /\ bbId' = 0
    /\ bbLocs' = 0
    /\ live' = {}
    /\ loc' = NoLoc
    /\ last' = Last0
    /\ UNCHANGED <<nlocs, nfuncs, aux>>

\* localAlloc, lines 63-69, for the next reachable block
EnterBlock ==
    /\ pc = "blocks"
    /\ nlocs < MaxLocs
    /\ \E P \in LivePatterns :
          LET t == localAllocEntry(Cur, bbId)
          IN /\ Commit(t, EntryMachine(t, bbId, NoCallMach(mach)), "body")
             /\ hist' = HistStep(NoCall(hist), t)
             /\ live' = IF bbId = 0 THEN P \cap 0..(np - 1) ELSE P
    /\ bbId' = bbId + 1
    /\ bbLocs' = 0
    /\ loc' = NoLoc
    /\ UNCHANGED <<nlocs, nfuncs, last, aux>>

\* localAlloc, line 77: allocForLoc for a sequential instruction
AllocLoc ==
    /\ pc = "body"
    /\ nlocs < MaxLocs
    /\ \E srcs \in SrcLists(live) :
       \E dsts \in DstLists(live, srcs) :
       \E kill \in {{}, Range(srcs) \ Range(dsts)}, dl \in BOOLEAN :
          LET instr == SeqInstr(srcs, dsts)
              liveOut == ((live \ kill) \ Range(dsts)) \cup (IF dl THEN Range(dsts) ELSE {})
              t == allocForLoc(Cur, instr, live)
          IN /\ (dsts = <<>> \/ srcs # <<>> => dl)
             /\ (Len(srcs) = 2 => srcs[1] < srcs[2])
             /\ LiveEq(instr, live, liveOut)
             /\ Commit(t, NoCallMach(mach), "body")
             /\ hist' = HistStep(NoCall(hist), t)
             /\ live' = liveOut
    /\ nlocs' = nlocs + 1
    /\ bbLocs' = bbLocs + 1
    /\ loc' = NoLoc
    /\ InputUnchanged

\* allocForCall, lines 88-94
CallPush ==
    /\ pc = "body"
    /\ nlocs < MaxLocs
    /\ FreshTemp # NoTemp
    \* the arguments are read by the pushes: they are live at the Call
    /\ \E args \in ArgLists(OperandTemps \cap live), dl \in BOOLEAN :
          LET r == FreshTemp
              t == pushArgs(Cur, args, Len(args), live)
          IN /\ loc' = [args |-> args, ret_v |-> r, liveIn |-> live,
                        liveOut |-> live \cup (IF dl THEN {r} ELSE {})]
             /\ Commit(t, NoCallMach(mach), "pushed")
             /\ hist' = [HistStep(NoCall(hist), t)
                         EXCEPT !.pre = [nextLocalOffset |-> nextLocalOffset,
                                         offsets |-> offsets,
                                         arraySPOffsets |-> arraySPOffsets,
                                         sp |-> mach.sp]]
    /\ UNCHANGED <<live, nlocs, bbLocs>>
    /\ InputUnchanged

\* allocForCall, lines 96-100
CallSave ==
    /\ pc = "pushed"
    /\ LET t == saveCallerSave([Cur EXCEPT !.callerSaveRegs = <<>>], 1, loc.liveOut)
       IN /\ Commit(t, mach, "saved")
          /\ hist' = [HistStep(hist, t) EXCEPT !.saved =
                        [i \in DOMAIN t.callerSaveRegs |->
                           LET reg == t.callerSaveRegs[i]
                           IN [reg |-> reg, temp |-> temp[reg], val |-> mach.holds[reg],
                               addr |-> mach.sp + t.offsets[temp[reg]]]]]
    /\ UNCHANGED <<live, nlocs, bbLocs, loc>>
    /\ InputUnchanged

\* allocForCall, lines 102-107
CallPop ==
    /\ pc = "saved"
    /\ LET t == popArgs(Cur, 0, Len(loc.args))
       IN Commit(t, mach, "popped") /\ hist' = HistStep(hist, t)
    /\ UNCHANGED <<live, nlocs, bbLocs, loc>>
    /\ InputUnchanged

\* allocForCall, line 109: the call instruction (Riscv.Call: no sources,
\* the return temp as destination)
CallInstr ==
    /\ pc = "popped"
    /\ LET t == allocForLoc(Cur, RiscvCall(loc.ret_v), loc.liveIn)
       IN Commit(t, mach, "called") /\ hist' = HistStep(hist, t)
    /\ UNCHANGED <<live, nlocs, bbLocs, loc>>
    /\ InputUnchanged

\* allocForCall, lines 111-116
CallFree ==
    /\ pc = "called"
    /\ LET t == freeArgs(Cur, Len(loc.args))
       IN Commit(t, mach, "freed") /\ hist' = HistStep(hist, t)
    /\ UNCHANGED <<live, nlocs, bbLocs, loc>>
    /\ InputUnchanged

\* allocForCall, line 118
CallRet ==
    /\ pc = "freed"
    /\ LET t == saveReturnValue(Cur, loc.ret_v)
       IN Commit(t, mach, "retsaved") /\ hist' = HistStep(hist, t)
    /\ UNCHANGED <<live, nlocs, bbLocs, loc>>
    /\ InputUnchanged

\* allocForCall, lines 120-121; callerSaveRegs is a local of allocForCall
CallReload ==
    /\ pc = "retsaved"
    /\ LET t == loadCallerSave(Cur, 1)
       IN /\ Commit([t EXCEPT !.callerSaveRegs = <<>>], mach, "body")
          /\ hist' = HistStep(hist, t)
    /\ live' = loc.liveOut
    /\ nlocs' = nlocs + 1
    /\ bbLocs' = bbLocs + 1
    /\ UNCHANGED <<loc>>
    /\ InputUnchanged

\* localAlloc, lines 79-83, at the end of a CONTINUOUS block (a block is a
\* nonempty list of locations)
ExitCont ==
    /\ pc = "body"
    /\ bbLocs > 0
    /\ LET t == storeLiveOut(Cur, 0, live)
       IN Commit(t, NoCallMach(mach), "blocks") /\ hist' = HistStep(NoCall(hist), t)
    /\ loc' = NoLoc
    /\ UNCHANGED <<live, nlocs, bbLocs>>
    /\ InputUnchanged

\* localAlloc, lines 72-84, for a block whose last location is a jump (no
\* operand) or a conditional jump (Riscv.Branch(cond, label)) on the least
\* live operand temp
ExitJump ==
    /\ pc = "body"
    /\ nlocs < MaxLocs
    /\ \E srcs \in {<<>>} \cup (IF live \cap OperandTemps = {} THEN {}
                               ELSE {<<Least(live \cap OperandTemps)>>}),
          kill \in BOOLEAN :
          LET term == [kind |-> IF srcs = <<>> THEN "JMP" ELSE "COND_JMP",
                       srcs |-> [i \in DOMAIN srcs |-> Tm(srcs[i])], dsts |-> <<>>]
              liveOut == IF kill THEN live \ Range(srcs) ELSE live
              t == localAllocExit(Cur, term, live, liveOut)
          IN /\ (srcs = <<>> => ~kill)
             /\ LiveEq(term, live, liveOut)
             /\ Commit(t, NoCallMach(mach), "blocks")
             /\ hist' = HistStep(NoCall(hist), t)
             /\ live' = liveOut
    /\ nlocs' = nlocs + 1
    /\ bbLocs' = bbLocs + 1
    /\ loc' = NoLoc
    /\ InputUnchanged

\* localAlloc, lines 72-84, for the two locations the selector's
\* visitReturn produces: Move(A0, value) or LoadImm(A0, 0), then
\* JumpToEpilogue, which ends the block
ExitRet ==
    /\ pc = "body"
    /\ nlocs < MaxLocs
    /\ \E srcs \in {q \in SrcLists(live) : Len(q) <= 1} :
          LET mv == [kind |-> "SEQ", srcs |-> [i \in DOMAIN srcs |-> Tm(srcs[i])],
                     dsts |-> <<Rg("a0")>>]
              jmp == [kind |-> "RET", srcs |-> <<>>, dsts |-> <<>>]
              t1 == allocForLoc(Cur, mv, live)
              t == localAllocExit(t1, jmp, {}, {})
          IN /\ live = Range(srcs)
             /\ Commit(t, NoCallMach(mach), "blocks")
             /\ hist' = HistStep(NoCall(hist), t)
    /\ live' = {}
    /\ nlocs' = nlocs + 1
    /\ bbLocs' = bbLocs + 1
    /\ loc' = NoLoc
    /\ InputUnchanged

\* accept, line 49: emitEnd prints prologue, body and epilogue
EmitEnd ==
    /\ pc = "blocks"
    /\ bbId >= 1
    /\ LET run == FrameRun(Cur, mach)
       IN last' = [frameSize |-> nextLocalOffset,
                   savedCS |-> {x.reg : x \in Range(calleeSaveInstrs(Cur, 0, "sw"))},
                   bound |-> hist.bound,
                   wr |-> mach.wr,
                   spAtRet |-> run.atRet.sp,
                   fpInBody |-> run.afterPrologue.val["fp"],
                   val |-> run.atRet.val]
    /\ pc' = "idle"
    /\ nfuncs' = nfuncs + 1
    /\ buf' = prologue(Cur) \o epilogue(Cur)
    /\ UNCHANGED <<bindings, occupied, temp, used, regIndex, nextLocalOffset, offsets,
                   arraySPOffsets, np, callerSaveRegs, loc, live, bbId, bbLocs, nlocs,
                   mach, hist, aux>>

Next ==
    \/ Accept
    \/ EnterBlock
    \/ AllocLoc
    \/ CallPush
    \/ CallSave
    \/ CallPop
    \/ CallInstr
    \/ CallFree
    \/ CallRet
    \/ CallReload
    \/ ExitCont
    \/ ExitJump
    \/ ExitRet
    \/ EmitEnd

Spec == Init /\ [][Next]_vars

----------------------------------------------------------------------------
(* The passes before accept: TACGen over the syntax tree, the instruction  *)
(* selector over the TAC sequence, liveness over the selected sequence.    *)
(* The FuncVisitor f is the record                                         *)
(*   nextTemp  index of the next fresh temp                                *)
(*   seq       the TAC instructions visited so far                         *)
(*   val       the temp of the expression visited last                     *)

MaxImm == 24                         \* greatest integer literal of a source program
Imms == 0..MaxImm

\* TAC instructions (utils/tac/tacinstr.py)
LoadImm4(dst, value) ==
    [kind |-> "SEQ", dsts |-> <<Tm(dst)>>, srcs |-> <<>>, opc |-> "LoadImm4", value |-> value]
Return(value) ==
    [kind |-> "RET", dsts |-> <<>>, srcs |-> IF value = NoTemp THEN <<>> ELSE <<Tm(value)>>,
     opc |-> "Return", value |-> value]

\* FuncVisitor: a function with nparams parameters, visitLoad, visitReturn
FuncVisitor0(nparams) == [nextTemp |-> nparams, seq |-> <<>>, val |-> NoTemp]
mvVisitLoad(f, value) ==
    [f EXCEPT !.nextTemp = @ + 1,
              !.seq = Append(@, LoadImm4(f.nextTemp, value)),
              !.val = f.nextTemp]
mvVisitReturn(f, value) == [f EXCEPT !.seq = Append(@, Return(value))]

\* TACGen.visitIntLiteral and TACGen.visitReturn of `return N;`
TACGenVisitIntLiteral(f, value) == mvVisitLoad(f, value)
TACGenVisitReturn(f, N) ==
    LET f1 == TACGenVisitIntLiteral(f, N) IN mvVisitReturn(f1, f1.val)

\* native instructions before allocation (utils/riscv.py)
RiscvMove(dst, src) == [kind |-> "SEQ", dsts |-> <<dst>>, srcs |-> <<src>>, opc |-> "mv"]
RiscvLoadImm(dst, value) ==
    [kind |-> "SEQ", dsts |-> <<dst>>, srcs |-> <<>>, opc |-> "li", value |-> value]
RiscvJumpToEpilogue == [kind |-> "RET", dsts |-> <<>>, srcs |-> <<>>, opc |-> "j"]

\* variant: the returned value is not moved into a0
visitReturn_NoValue(seq, instr) ==
    seq \o <<RiscvLoadImm(Rg("a0"), 0), RiscvJumpToEpilogue>>

\* RiscvInstrSelector.visitReturn
visitReturn(seq, instr) ==
    IF instr.value # NoTemp
    THEN seq \o <<RiscvMove(Rg("a0"), Tm(instr.value)), RiscvJumpToEpilogue>>
    ELSE seq \o <<RiscvLoadImm(Rg("a0"), 0), RiscvJumpToEpilogue>>

\* RiscvInstrSelector.visitLoadImm4
visitLoadImm4(seq, instr) == Append(seq, RiscvLoadImm(instr.dsts[1], instr.value))

\* variant: the operands of the set difference exchanged
liveInOf_Swapped(instr, out) == getRead(instr) \cup (getWritten(instr) \ out)

\* the transfer function of one location
liveInOf(instr, out) == getRead(instr) \cup (out \ getWritten(instr))

\* liveIn of location i of a straight-line sequence whose last location has
\* the live-out set out: liveOut(k) = liveIn(k+1)
RECURSIVE LiveInAt(_, _, _)
LiveInAt(seq, i, out) ==
    IF i > Len(seq) THEN out
    ELSE liveInOf(seq[i], LiveInAt(seq, i + 1, out))

\* localAlloc of block 0 when it is the only block, ends in a return and
\* holds no Call: the main loop over the locations before the terminator
RECURSIVE allocSeq(_, _, _, _)
allocSeq(s, seq, i, n) ==
    IF i > n \/ s.err THEN s
    ELSE allocSeq(allocForLoc(s, seq[i], LiveInAt(seq, i, {})), seq, i + 1, n)

localAllocReturnBlock(s, seq) ==
    localAllocExit(allocSeq(localAllocEntry(s, 0), seq, 1, Len(seq) - 1),
                   seq[Len(seq)], {}, {})

(* `int f() { return N; }` through the passes *)

RetUnchanged == UNCHANGED <<loc, live, bbId, bbLocs, nlocs, nfuncs, hist, last>>
AllocUnchanged ==
    UNCHANGED <<bindings, occupied, temp, used, regIndex, nextLocalOffset, offsets,
                arraySPOffsets, np, buf, pc, callerSaveRegs, mach>>

InitRet ==
    /\ Allocator0
    /\ aux \in {[pass |-> "ast", N |-> n, tac |-> <<>>, seq |-> <<>>, body |-> <<>>,
                 out |-> <<>>] : n \in Imms}

\* TACGen.transform of the function body
RetTACGen ==
    /\ aux.pass = "ast"
    /\ aux' = [aux EXCEPT !.pass = "tac",
                          !.tac = TACGenVisitReturn(FuncVisitor0(0), aux.N).seq]
    /\ AllocUnchanged /\ RetUnchanged

\* RiscvAsmEmitter.selectInstr
RetSelect ==
    /\ aux.pass = "tac"
    /\ aux' = [aux EXCEPT !.pass = "selected",
                          !.seq = visitReturn(visitLoadImm4(<<>>, aux.tac[1]), aux.tac[2])]
    /\ AllocUnchanged /\ RetUnchanged

\* BruteRegAlloc.accept up to emitEnd
RetAccept ==
    /\ aux.pass = "selected"
    /\ Commit(localAllocReturnBlock(emitSubroutine(Cur, 0, <<>>), aux.seq), Machine0, "blocks")
    /\ aux' = [aux EXCEPT !.pass = "allocated", !.body = buf']
    /\ RetUnchanged

\* emitEnd: prologue, body, epilogue
RetEmitEnd ==
    /\ aux.pass = "allocated"
    /\ aux' = [aux EXCEPT !.pass = "done", !.out = prologue(Cur) \o aux.body \o epilogue(Cur)]
    /\ AllocUnchanged /\ RetUnchanged

NextRet == RetTACGen \/ RetSelect \/ RetAccept \/ RetEmitEnd

SpecRet == InitRet /\ [][NextRet]_vars

(* emitLoadFromStack applied to a subroutine emitter with given tables *)

FrontUnchanged == AllocUnchanged /\ RetUnchanged

\* emitters of functions with 0, 9 or 10 parameters in which the temp to
\* load and one other temp may have a spill slot
LoadInputs ==
    {[pass |-> "load", reg |-> r, temp |-> t,
      s |-> [Cur EXCEPT !.np = n,
                        !.offsets = [u \in Temps |-> IF u = t THEN o
                                                     ELSE IF u = 0 THEN o2 ELSE NoOff],
                        !.buf = <<[op |-> "spadd", imm |-> 0]>>],
      res |-> Cur] :
        r \in {"t0", "a0", "s1"}, t \in Temps, n \in ParamCounts \cup {9},
        o \in {NoOff, FrameBase, FrameBase + 4}, o2 \in {NoOff, FrameBase + 8}}

InitLoad == Allocator0 /\ aux \in LoadInputs

LoadFromStack ==
    /\ aux.pass = "load"
    /\ aux' = [aux EXCEPT !.pass = "loaded",
                          !.res = emitLoadFromStack(aux.s, aux.reg, aux.temp)]
    /\ FrontUnchanged

NextLoad == LoadFromStack

SpecLoad == InitLoad /\ [][NextLoad]_vars

(* Liveness analysis over the control-flow graph of a selected function.   *)
(* A block is [locs, kind, target]: its instructions (the terminator last, *)
(* when it has one), its kind and the id of the block its label names.     *)
(* Block ids are 0..n-1; block id b is cfg[b + 1].                         *)

MaxBlocks == 3                       \* basic blocks of a function

RiscvJump(target) ==
    [kind |-> "JMP", dsts |-> <<>>, srcs |-> <<>>, opc |-> "j", target |-> target]
RiscvBranch(cond, target) ==
    [kind |-> "COND_JMP", dsts |-> <<>>, srcs |-> <<Tm(cond)>>, opc |-> "beqz",
     target |-> target]

\* the sequential instruction of a block: t0 = t0 op t1, or t1 = imm
LiveInstrs == {SeqInstr(<<0, 1>>, <<0>>), SeqInstr(<<>>, <<1>>)}

BlockShapes(n) ==
    {[locs |-> <<i>>, kind |-> "CONTINUOUS", target |-> -1] : i \in LiveInstrs}
    \cup {[locs |-> <<i, RiscvJump(k)>>, kind |-> "JMP", target |-> k] :
            i \in LiveInstrs, k \in 0..(n - 1)}
    \cup {[locs |-> <<i, RiscvBranch(0, k)>>, kind |-> "COND_JMP", target |-> k] :
            i \in LiveInstrs, k \in 0..(n - 1)}
    \cup {[locs |-> <<i, RiscvJumpToEpilogue>>, kind |-> "RET", target |-> -1] :
            i \in LiveInstrs}

\* graphs of n blocks; control does not fall off the last block
CFGs(n) == {c \in [1..n -> BlockShapes(n)] : c[n].kind \in {"JMP", "RET"}}

\* successors by block kind
succ(cfg, b) ==
    LET next == IF b + 1 < Len(cfg) THEN {b + 1} ELSE {}
        k == cfg[b + 1].kind
    IN IF k = "CONTINUOUS" THEN next
       ELSE IF k = "JMP" THEN {cfg[b + 1].target}
       ELSE IF k = "COND_JMP" THEN next \cup {cfg[b + 1].target}
       ELSE {}

\* blocks reachable from block 0 (breadth-first over successors)
RECURSIVE reachFrom(_, _)
reachFrom(cfg, R) ==
    LET R2 == R \cup UNION {succ(cfg, b) : b \in R}
    IN IF R2 = R THEN R ELSE reachFrom(cfg, R2)
unreachable(cfg, b) == b \notin reachFrom(cfg, {0})

\* the sets of the locations of a block whose last location has liveOut out
blockLive(locs, out) ==
    [liveIn |-> [i \in DOMAIN locs |-> LiveInAt(locs, i, out)],
     liveOut |-> [i \in DOMAIN locs |-> LiveInAt(locs, i + 1, out)]]

\* one pass over the blocks b, b+1, ... in id order
RECURSIVE livePass(_, _, _)
livePass(cfg, L, b) ==
    IF b >= Len(cfg) THEN L
    ELSE livePass(cfg,
                  [L EXCEPT ![b] = blockLive(cfg[b + 1].locs,
                                             UNION {L[x].liveIn[1] : x \in succ(cfg, b)})],
                  b + 1)

\* the sets before the first pass are empty
Live0(cfg) ==
    [b \in 0..(Len(cfg) - 1) |->
       [liveIn |-> [i \in DOMAIN cfg[b + 1].locs |-> {}],
        liveOut |-> [i \in DOMAIN cfg[b + 1].locs |-> {}]]]

InitLive ==
    /\ Allocator0
    /\ aux \in {[pass |-> "live", cfg |-> c, L |-> Live0(c), passes |-> 0] :
                  c \in UNION {CFGs(n) : n \in 1..MaxBlocks}}

\* one iteration of the analysis: a pass that changes nothing ends it
LivePass ==
    /\ aux.pass = "live"
    /\ aux' = IF livePass(aux.cfg, aux.L, 0) = aux.L
              THEN [aux EXCEPT !.pass = "fixed"]
              ELSE [aux EXCEPT !.L = livePass(aux.cfg, aux.L, 0), !.passes = @ + 1]
    /\ FrontUnchanged

NextLive == LivePass

SpecLive == InitLive /\ [][NextLive]_vars

\* the analysis is a loop that runs until its pass changes nothing
SpecLiveFair == SpecLive /\ WF_vars(LivePass)

(* TACGen.addressCompute: the address of a[i1]...[ik].  The index          *)
(* expressions are identifiers, temps 0..k-1 holding i1..ik; the array is  *)
(* a local array, a global array or an array parameter.                    *)

MaxDims == 2                         \* dimensions of an array
MaxDim == 4                          \* greatest declared length of a dimension

\* 32-bit words are the integers -2^31 .. 2^31-1 (two's complement); the
\* operations work on 16-bit halves so that no intermediate value leaves
\* that range
Lo16(a) == a % 65536
Hi16(a) == (a \div 65536) % 65536
Word(hi, lo) == (IF hi >= 32768 THEN hi - 65536 ELSE hi) * 65536 + lo
AddW(a, b) ==
    LET lo == Lo16(a) + Lo16(b)
    IN Word((Hi16(a) + Hi16(b) + (lo \div 65536)) % 65536, lo % 65536)
SubW(a, b) ==
    LET lo == Lo16(a) - Lo16(b)
    IN Word((Hi16(a) - Hi16(b) + (lo \div 65536)) % 65536, lo % 65536)
\* x * y of two 16-bit halves without the product of their high bytes
MulMid(x, y) ==
    ((x \div 256) * (y % 256) + (x % 256) * (y \div 256)) * 256 + (x % 256) * (y % 256)
MulW(a, b) ==
    LET m == MulMid(Lo16(a), Lo16(b))
    IN Word(((Lo16(a) \div 256) * (Lo16(b) \div 256) + (m \div 65536)
             + MulMid(Hi16(a), Lo16(b)) + MulMid(Lo16(a), Hi16(b))) % 65536,
            m % 65536)

Binary(op, dst, lhs, rhs) ==
    [kind |-> "SEQ", dsts |-> <<Tm(dst)>>, srcs |-> <<Tm(lhs), Tm(rhs)>>, opc |-> op]
LoadSymbol(dst, symbol) ==
    [kind |-> "SEQ", dsts |-> <<Tm(dst)>>, srcs |-> <<>>, opc |-> "LoadSymbol",
     symbol |-> symbol]

mvVisitBinary(f, op, lhs, rhs) ==
    [f EXCEPT !.nextTemp = @ + 1,
              !.seq = Append(@, Binary(op, f.nextTemp, lhs, rhs)),
              !.val = f.nextTemp]
mvVisitLoadSymbol(f, symbol) ==
    [f EXCEPT !.nextTemp = @ + 1,
              !.seq = Append(@, LoadSymbol(f.nextTemp, symbol)),
              !.val = f.nextTemp]

\* types: int, and ArrayType(base, length); multidim nests the first
\* dimension outermost
INT == [name |-> "int"]
ArrayType(base, length) == [name |-> "array", base |-> base, length |-> length]
RECURSIVE multidim(_)
multidim(dims) ==
    IF dims = <<>> THEN INT ELSE ArrayType(multidim(Tail(dims)), Head(dims))

Reverse(q) == [i \in DOMAIN q |-> q[Len(q) + 1 - i]]

\* namer: the type of a declared array and of an array parameter
declaredType(kind, dims) ==
    IF kind = "param" THEN multidim(<<1>> \o Tail(dims)) ELSE multidim(dims)

\* while isinstance(type, ArrayType): lengths.append(type.length)
RECURSIVE typeLengths(_)
typeLengths(type) ==
    IF type.name = "array" THEN <<type.length>> \o typeLengths(type.base) ELSE <<>>

\* the accumulation loop of addressCompute
RECURSIVE addrLoop(_, _, _, _, _, _)
addrLoop(f, indexes, lengths, i, size, addrTemp) ==
    IF i > Len(indexes) THEN [f EXCEPT !.val = addrTemp]
    ELSE LET f1 == mvVisitLoad(f, size * lengths[i])
             f2 == mvVisitBinary(f1, "MUL", indexes[i], f1.val)
             f3 == mvVisitBinary(f2, "ADD", addrTemp, f2.val)
         IN addrLoop(f3, indexes, lengths, i + 1, size * lengths[i], f3.val)

\* variant: the lengths are not reversed
addressCompute_NoReverse(f, indexes, arraySymbol) ==
    LET f1 == IF arraySymbol.isGlobal THEN mvVisitLoadSymbol(f, arraySymbol.name) ELSE f
        base == IF arraySymbol.isGlobal THEN f1.val ELSE arraySymbol.temp
    IN addrLoop(f1, indexes, typeLengths(arraySymbol.type) \o <<1>>, 1, 4, base)

\* TACGen.addressCompute; indexes are the index temps, last index first
addressCompute(f, indexes, arraySymbol) ==
    LET f1 == IF arraySymbol.isGlobal THEN mvVisitLoadSymbol(f, arraySymbol.name) ELSE f
        base == IF arraySymbol.isGlobal THEN f1.val ELSE arraySymbol.temp
    IN addrLoop(f1, indexes, Reverse(typeLengths(arraySymbol.type) \o <<1>>), 1, 4, base)

\* the TAC instructions run on 32-bit temps; symbols maps a name to its address
RECURSIVE RunTAC(_, _, _, _)
RunTAC(seq, i, env, symbols) ==
    IF i > Len(seq) THEN env
    ELSE LET x == seq[i]
             d == x.dsts[1].temp
             v == IF x.opc = "LoadImm4" THEN x.value
                  ELSE IF x.opc = "LoadSymbol" THEN symbols[x.symbol]
                  ELSE IF x.opc = "MUL" THEN MulW(env[x.srcs[1].temp], env[x.srcs[2].temp])
                  ELSE AddW(env[x.srcs[1].temp], env[x.srcs[2].temp])
         IN RunTAC(seq, i + 1, [t \in DOMAIN env \cup {d} |-> IF t = d THEN v ELSE env[t]],
                   symbols)

\* index values 0, 1, 3, -1 and 2^31-1; bases 64 and 2^32-8
IndexValues == {0, 1, 3, Word(65535, 65535), Word(32767, 65535)}
Bases == {64, Word(65535, 65528)}
ArrayKinds == {"local", "global", "param"}
DimLists == UNION {[1..k -> 1..MaxDim] : k \in 1..MaxDims}

InitAddr ==
    /\ Allocator0
    /\ aux \in {[pass |-> "addr", kind |-> kind, dims |-> dims,
                 f |-> FuncVisitor0(Len(dims) + 1)] :
                  kind \in ArrayKinds, dims \in DimLists}

\* the index expression a[i1]...[ik] visited: temps 0..k-1 are the indexes,
\* temp k is the temp of a local array or of an array parameter
AddressCompute ==
    /\ aux.pass = "addr"
    /\ aux' = [aux EXCEPT !.pass = "tac",
                 !.f = addressCompute(aux.f,
                           [j \in DOMAIN aux.dims |-> Len(aux.dims) - j],
                           [isGlobal |-> aux.kind = "global", name |-> "a",
                            temp |-> Len(aux.dims),
                            type |-> declaredType(aux.kind, aux.dims)])]
    /\ FrontUnchanged

\* the generated instructions run with index values idx and the array at base
AddressRun ==
    /\ aux.pass = "tac"
    /\ \E idx \in [DOMAIN aux.dims -> IndexValues], base \in Bases :
         aux' = [pass |-> "run", kind |-> aux.kind, dims |-> aux.dims, f |-> aux.f,
                 idx |-> idx, base |-> base,
                 env |-> RunTAC(aux.f.seq, 1,
                                [t \in 0..Len(aux.dims) |->
                                   IF t = Len(aux.dims) THEN base ELSE idx[t + 1]],
                                [n \in {"a"} |-> base])]
    /\ FrontUnchanged

NextAddr == AddressCompute \/ AddressRun

SpecAddr == InitAddr /\ [][NextAddr]_vars

(* RiscvInstrSelector.visitBinary: the native instructions selected for a  *)
(* TAC Binary, run on 32-bit temps.                                        *)

RiscvBinary(op, dst, lhs, rhs) ==
    [kind |-> "SEQ", dsts |-> <<dst>>, srcs |-> <<lhs, rhs>>, opc |-> op]
RiscvUnary(op, dst, operand) ==
    [kind |-> "SEQ", dsts |-> <<dst>>, srcs |-> <<operand>>, opc |-> op]

\* variant: <= selected as slt / seqz
visitBinary_LeqSlt(seq, instr) ==
    LET dst == instr.dsts[1]
        lhs == instr.srcs[1]
        rhs == instr.srcs[2]
    IN IF instr.opc = "EQU"
       THEN seq \o <<RiscvBinary("SUB", dst, lhs, rhs), RiscvUnary("SEQZ", dst, dst)>>
       ELSE IF instr.opc = "NEQ"
       THEN seq \o <<RiscvBinary("SUB", dst, lhs, rhs), RiscvUnary("SNEZ", dst, dst)>>
       ELSE IF instr.opc = "LEQ"
       THEN seq \o <<RiscvBinary("SLT", dst, lhs, rhs), RiscvUnary("SEQZ", dst, dst)>>
       ELSE IF instr.opc = "GEQ"
       THEN seq \o <<RiscvBinary("SLT", dst, lhs, rhs), RiscvUnary("SEQZ", dst, dst)>>
       ELSE IF instr.opc = "AND"
       THEN seq \o <<RiscvUnary("SNEZ", lhs, lhs), RiscvUnary("SNEZ", rhs, rhs),
                     RiscvBinary("AND", dst, lhs, rhs)>>
       ELSE IF instr.opc = "OR"
       THEN seq \o <<RiscvBinary("OR", dst, lhs, rhs), RiscvUnary("SNEZ", dst, dst)>>
       ELSE Append(seq, RiscvBinary(instr.opc, dst, lhs, rhs))

\* RiscvInstrSelector.visitBinary
visitBinary(seq, instr) ==
    LET dst == instr.dsts[1]
        lhs == instr.srcs[1]
        rhs == instr.srcs[2]
    IN IF instr.opc = "EQU"
       THEN seq \o <<RiscvBinary("SUB", dst, lhs, rhs), RiscvUnary("SEQZ", dst, dst)>>
       ELSE IF instr.opc = "NEQ"
       THEN seq \o <<RiscvBinary("SUB", dst, lhs, rhs), RiscvUnary("SNEZ", dst, dst)>>
       ELSE IF instr.opc = "LEQ"
       THEN seq \o <<RiscvBinary("SGT", dst, lhs, rhs), RiscvUnary("SEQZ", dst, dst)>>
       ELSE IF instr.opc = "GEQ"
       THEN seq \o <<RiscvBinary("SLT", dst, lhs, rhs), RiscvUnary("SEQZ", dst, dst)>>
       ELSE IF instr.opc = "AND"
       THEN seq \o <<RiscvUnary("SNEZ", lhs, lhs), RiscvUnary("SNEZ", rhs, rhs),
                     RiscvBinary("AND", dst, lhs, rhs)>>
       ELSE IF instr.opc = "OR"
       THEN seq \o <<RiscvBinary("OR", dst, lhs, rhs), RiscvUnary("SNEZ", dst, dst)>>
       ELSE Append(seq, RiscvBinary(instr.opc, dst, lhs, rhs))

\* bitwise and / or of two n-bit values
RECURSIVE Bits(_, _, _, _)
Bits(x, y, n, op) ==
    IF n = 0 THEN 0
    ELSE (IF op = "AND" THEN (x % 2) * (y % 2)
          ELSE IF x % 2 = 1 \/ y % 2 = 1 THEN 1 ELSE 0)
         + 2 * Bits(x \div 2, y \div 2, n - 1, op)
BitsW(a, b, op) == Word(Bits(Hi16(a), Hi16(b), 16, op), Bits(Lo16(a), Lo16(b), 16, op))

\* one native instruction on the values of its sources
NativeValue(opc, v) ==
    IF opc = "SUB" THEN SubW(v[1], v[2])
    ELSE IF opc = "ADD" THEN AddW(v[1], v[2])
    ELSE IF opc = "MUL" THEN MulW(v[1], v[2])
    ELSE IF opc = "SLT" THEN (IF v[1] < v[2] THEN 1 ELSE 0)
    ELSE IF opc = "SGT" THEN (IF v[1] > v[2] THEN 1 ELSE 0)
    ELSE IF opc = "SEQZ" THEN (IF v[1] = 0 THEN 1 ELSE 0)
    ELSE IF opc = "SNEZ" THEN (IF v[1] # 0 THEN 1 ELSE 0)
    ELSE BitsW(v[1], v[2], opc)

RECURSIVE RunNative(_, _, _)
RunNative(seq, i, env) ==
    IF i > Len(seq) THEN env
    ELSE RunNative(seq, i + 1,
                   [env EXCEPT ![seq[i].dsts[1].temp] =
                      NativeValue(seq[i].opc,
                                  [k \in DOMAIN seq[i].srcs |-> env[seq[i].srcs[k].temp]])])

\* operand values 0, 1, 2, -1, -2^31, 2^31-1, 2^16
Words == {0, 1, 2, Word(65535, 65535), Word(32768, 0), Word(32767, 65535), Word(1, 0)}
SelectedOps == {"EQU", "NEQ", "LEQ", "GEQ", "AND", "OR", "SUB"}

\* dst = lhs op rhs with dst temp 2, lhs temp 0 and rhs temp 1 or temp 0
InitBin ==
    /\ Allocator0
    /\ aux \in {[pass |-> "bin", instr |-> Binary(op, 2, 0, rhs), seq |-> <<>>] :
                  op \in SelectedOps, rhs \in {0, 1}}

BinSelect ==
    /\ aux.pass = "bin"
    /\ aux' = [aux EXCEPT !.pass = "selected", !.seq = visitBinary(aux.seq, aux.instr)]
    /\ FrontUnchanged

BinRun ==
    /\ aux.pass = "selected"
    /\ \E a \in Words, b \in Words :
         aux' = [pass |-> "ran", instr |-> aux.instr, seq |-> aux.seq,
                 a |-> a, b |-> IF aux.instr.srcs[2].temp = 0 THEN a ELSE b,
                 env |-> RunNative(aux.seq, 1,
                                   [t \in 0..2 |-> IF t = 0 THEN a ELSE IF t = 1 THEN b ELSE 0])]
    /\ FrontUnchanged

NextBin == BinSelect \/ BinRun

SpecBin == InitBin /\ [][NextBin]_vars

(* BruteRegAlloc.accept over the blocks of a control-flow graph: a function *)
(* of two parameters, temps 0 and 1, whose blocks are those of a graph of   *)
(* CFGs, with the liveness sets of the analysis.                            *)

\* the analysis run to its fixed point
RECURSIVE liveFix(_, _)
liveFix(cfg, L) ==
    IF livePass(cfg, L, 0) = L THEN L ELSE liveFix(cfg, livePass(cfg, L, 0))

\* a block that is the target of a jump starts with a label (its id);
\* -1 stands for None
labelOf(cfg, b) == IF \E x \in DOMAIN cfg : cfg[x].target = b THEN b ELSE -1

\* RiscvSubroutineEmitter.emitLabel
emitLabel(s, label) == emit(s, [op |-> "label", label |-> label])

\* localAlloc lines 72-77: locations i..n of a block, ins their liveIn sets
RECURSIVE allocLocs(_, _, _, _, _)
allocLocs(s, locs, ins, i, n) ==
    IF i > n \/ s.err THEN s
    ELSE allocLocs(allocForLoc(s, locs[i], ins[i]), locs, ins, i + 1, n)

\* BruteRegAlloc.localAlloc of block id (no Call among its locations)
localAlloc(s, bb, id, sets) ==
    IF bb.kind = "CONTINUOUS"
    THEN storeLiveOut(allocLocs(localAllocEntry(s, id), bb.locs, sets.liveIn,
                                1, Len(bb.locs)),
                      0, sets.liveOut[Len(bb.locs)])
    ELSE localAllocExit(allocLocs(localAllocEntry(s, id), bb.locs, sets.liveIn,
                                  1, Len(bb.locs) - 1),
                        bb.locs[Len(bb.locs)], sets.liveIn[Len(bb.locs)],
                        sets.liveOut[Len(bb.locs)])

\* variant: unreachable blocks are not skipped
acceptBlock_NoSkip(s, cfg, L, b) ==
    localAlloc(IF labelOf(cfg, b) # -1 THEN emitLabel(s, labelOf(cfg, b)) ELSE s,
               cfg[b + 1], b, L[b])

\* accept lines 41-48: one iteration of the loop over the blocks
acceptBlock(s, cfg, L, b) ==
    IF unreachable(cfg, b) THEN s
    ELSE localAlloc(IF labelOf(cfg, b) # -1 THEN emitLabel(s, labelOf(cfg, b)) ELSE s,
                    cfg[b + 1], b, L[b])

\* done[b + 1] is the part of the buffer written by the iteration of block b
InitAcc ==
    /\ Allocator0
    /\ aux \in {[pass |-> "accept", cfg |-> c, L |-> liveFix(c, Live0(c)), next |-> 0,
                 s |-> emitSubroutine(Cur, 2, <<>>), done |-> <<>>] :
                  c \in UNION {CFGs(n) : n \in 1..MaxBlocks}}

AccBlock ==
    /\ aux.pass = "accept"
    /\ aux.next < Len(aux.cfg)
    /\ ~aux.s.err
    /\ aux' = [aux EXCEPT
                 !.s = acceptBlock(aux.s, aux.cfg, aux.L, aux.next),
                 !.done = Append(@, [from |-> Len(aux.s.buf) + 1,
                                     to |-> Len(acceptBlock(aux.s, aux.cfg, aux.L,
                                                            aux.next).buf)]),
                 !.next = @ + 1]
    /\ FrontUnchanged

\* an exception of the emitter ends accept
AccRaise ==
    /\ aux.pass = "accept"
    /\ aux.s.err
    /\ aux' = [aux EXCEPT !.pass = "raised"]
    /\ FrontUnchanged

AccEnd ==
    /\ aux.pass = "accept"
    /\ aux.next = Len(aux.cfg)
    /\ ~aux.s.err
    /\ aux' = [aux EXCEPT !.pass = "done"]
    /\ FrontUnchanged

NextAcc == AccBlock \/ AccRaise \/ AccEnd

SpecAcc == InitAcc /\ [][NextAcc]_vars

(* The code accept emitted, run along the paths of the control-flow graph  *)
(* from the function's entry: aux.m is the machine, aux.at the block that  *)
(* runs next (-1: the function has returned), aux.ran the block that ran   *)
(* last.  A block's code runs to its end: its jump is taken, or not, after *)
(* its last instruction.                                                   *)

MaxSteps == 3                        \* blocks run along a path

NotLabel(x) == x.op # "label"
BlockCode(b) == SelectSeq(SubSeq(aux.s.buf, aux.done[b + 1].from, aux.done[b + 1].to),
                          NotLabel)

\* the machine when the function is entered: the argument registers hold
\* the parameters, no frame word is written
FuncEntryMachine(nparams) ==
    EntryMachine([offsets |-> [t \in Temps |-> NoOff], np |-> nparams], 0, Machine0)

PathStart ==
    /\ aux.pass = "done"
    /\ aux' = [pass |-> "run", cfg |-> aux.cfg, L |-> aux.L, next |-> aux.next,
               s |-> aux.s, done |-> aux.done, m |-> FuncEntryMachine(aux.s.np),
               at |-> 0, ran |-> -1, steps |-> 0]
    /\ FrontUnchanged

PathStep ==
    /\ aux.pass = "run"
    /\ aux.steps < MaxSteps
    /\ aux.at # -1
    /\ \E b \in succ(aux.cfg, aux.at) \cup {-1} :
         /\ b = -1 <=> succ(aux.cfg, aux.at) = {}
         /\ aux' = [aux EXCEPT !.m = Exec([aux.m EXCEPT !.opOK = TRUE],
                                         BlockCode(aux.at), 1, aux.s.np),
                               !.ran = aux.at, !.at = b, !.steps = @ + 1]
    /\ FrontUnchanged

NextPath == AccBlock \/ AccRaise \/ AccEnd \/ PathStart \/ PathStep

SpecPath == InitAcc /\ [][NextPath]_vars

(* allocRegFor called in sequence, and block entries, in a function of 0  *)
(* or 10 parameters; aux.prev is the allocator before the last call.      *)

MaxCalls == 4                        \* calls of allocRegFor and block entries

InitRR ==
    /\ Allocator0
    /\ aux \in {[pass |-> "rr", kind |-> "entry", n |-> 0, t |-> NoTemp, isRead |-> FALSE,
                 live |-> {}, prev |-> emitSubroutine(Cur, np0, <<>>),
                 s |-> localAllocEntry(emitSubroutine(Cur, np0, <<>>), 0)] :
                  np0 \in ParamCounts}

RRAlloc ==
    /\ aux.pass = "rr"
    /\ aux.n < MaxCalls
    /\ ~aux.s.err
    /\ \E t \in {8, 9, 10, 11}, isRead \in BOOLEAN, L \in LivePatterns :
         aux' = [aux EXCEPT !.kind = "alloc", !.n = @ + 1, !.t = t, !.isRead = isRead,
                            !.live = L, !.prev = aux.s,
                            !.s = allocRegFor(aux.s, t, isRead, L)]
    /\ FrontUnchanged

RREnter ==
    /\ aux.pass = "rr"
    /\ aux.n < MaxCalls
    /\ aux.kind = "alloc"
    /\ ~aux.s.err
    /\ aux' = [aux EXCEPT !.kind = "entry", !.n = @ + 1, !.prev = aux.s,
                          !.s = localAllocEntry(aux.s, 1)]
    /\ FrontUnchanged

NextRR == RRAlloc \/ RREnter

SpecRR == InitRR /\ [][NextRR]_vars

(* The frame of a function with local arrays: the subroutine emitter is   *)
(* created for the arrays recorded by TACGen.visitDeclaration, then       *)
(* allocRegFor creates spill slots while SP moves by argument pushes and   *)
(* pops (changeOffset).                                                    *)

MaxDecls == 2                        \* local arrays recorded for the function
MaxDepth == 2                        \* words pushed at a time

InitArr ==
    /\ Allocator0
    /\ aux \in {[pass |-> "rr", kind |-> "entry", n |-> 0, t |-> NoTemp, isRead |-> FALSE,
                 live |-> {}, prev |-> emitSubroutine(Cur, np0, sizes),
                 s |-> localAllocEntry(emitSubroutine(Cur, np0, sizes), 0),
                 arrays |-> sizes, depth |-> 0] :
                  np0 \in ParamCounts,
                  sizes \in UNION {[1..n -> ArraySizes] : n \in 1..MaxDecls}}

\* allocForCall, lines 91-94 and 104-107: a push or a pop moves SP by a word
ArrShift ==
    /\ aux.pass = "rr"
    /\ aux.n < MaxCalls
    /\ ~aux.s.err
    /\ \E d \in {1, -1} :
         /\ aux.depth + d \in 0..MaxDepth
         /\ aux' = [aux EXCEPT !.kind = "shift", !.n = @ + 1, !.depth = @ + d,
                               !.prev = aux.s, !.s = changeOffset(aux.s, 4 * d)]
    /\ FrontUnchanged

NextArr == RRAlloc \/ RREnter \/ ArrShift

SpecArr == InitArr /\ [][NextArr]_vars

----------------------------------------------------------------------------
(* Local array declarations `int a[d1]...[dk];` and                        *)
(* `int a[d1]...[dk] = {v1, ..., vn};`: Namer.visitDeclaration gives the    *)
(* symbol its type and initValue, TACGen.visitDeclaration emits the TAC.    *)

MaxInit == 3                         \* initializer lists have up to MaxInit items
InitItems == {0, 1, 5}               \* the integers of an initializer list
InitLists == UNION {[1..n -> InitItems] : n \in 1..MaxInit}

\* ArrayType.size
RECURSIVE typeSize(_)
typeSize(type) == IF type.name = "array" THEN type.length * typeSize(type.base) ELSE 4

Alloc(dst, size) ==
    [kind |-> "SEQ", dsts |-> <<Tm(dst)>>, srcs |-> <<>>, opc |-> "Alloc", size |-> size]
Store(src, base, offset) ==
    [kind |-> "SEQ", dsts |-> <<>>, srcs |-> <<Tm(src), Tm(base)>>, opc |-> "Store",
     offset |-> offset]
mvVisitAlloc(f, size) ==
    [f EXCEPT !.nextTemp = @ + 1,
              !.seq = Append(@, Alloc(f.nextTemp, size)),
              !.val = f.nextTemp]
mvVisitStoreInMem(f, src, base, offset) ==
    [f EXCEPT !.seq = Append(@, Store(src, base, offset))]

Zeros(n) == [i \in 1..n |-> 0]

\* Namer.visitDeclaration, lines 225-233: the list padded with zeros, or
\* the pair (0, wordCount) when there is no initializer list
namerInitValue(type, given, init_list) ==
    IF given
    THEN [err |-> Len(init_list) * 4 > typeSize(type),
          initValue |-> IF Len(init_list) * 4 > typeSize(type) THEN <<>>
                        ELSE init_list \o Zeros(typeSize(type) \div 4 - Len(init_list))]
    ELSE [err |-> FALSE, initValue |-> <<0, typeSize(type) \div 4>>]

\* TACGen.visitDeclaration, lines 124-127: for integer in symbol.initValue
RECURSIVE storeLoop(_, _, _, _, _)
storeLoop(f, initValue, i, base, zeroTemp) ==
    IF i > Len(initValue) THEN f
    ELSE IF initValue[i] # 0
         THEN storeLoop(mvVisitStoreInMem(mvVisitLoad(f, initValue[i]), f.nextTemp,
                                          base, 4 * (i - 1)),
                        initValue, i + 1, base, zeroTemp)
         ELSE storeLoop(mvVisitStoreInMem(f, zeroTemp, base, 4 * (i - 1)),
                        initValue, i + 1, base, zeroTemp)

\* TACGen.visitDeclaration of an array, lines 120-128
TACGenVisitDeclaration(f, size, initValue) ==
    IF 0 \in Range(initValue)
    THEN storeLoop(mvVisitLoad(mvVisitAlloc(f, size), 0), initValue, 1,
                   f.nextTemp, f.nextTemp + 1)
    ELSE storeLoop(mvVisitAlloc(f, size), initValue, 1, f.nextTemp, NoTemp)

InitDecl ==
    /\ Allocator0
    /\ aux \in {[pass |-> "decl", dims |-> dims, given |-> FALSE, init_list |-> <<>>] :
                  dims \in DimLists}
           \cup {[pass |-> "decl", dims |-> dims, given |-> TRUE, init_list |-> l] :
                  dims \in DimLists, l \in InitLists}

\* Namer.visitDeclaration accepts the declaration
NamerDeclaration ==
    /\ aux.pass = "decl"
    /\ ~namerInitValue(multidim(aux.dims), aux.given, aux.init_list).err
    /\ aux' = [pass |-> "named", dims |-> aux.dims, given |-> aux.given,
               init_list |-> aux.init_list, size |-> typeSize(multidim(aux.dims)),
               initValue |-> namerInitValue(multidim(aux.dims), aux.given,
                                            aux.init_list).initValue]
    /\ FrontUnchanged

\* Namer.visitDeclaration raises DecafTypeMismatchError
NamerRaise ==
    /\ aux.pass = "decl"
    /\ namerInitValue(multidim(aux.dims), aux.given, aux.init_list).err
    /\ aux' = [pass |-> "raised", dims |-> aux.dims, given |-> aux.given,
               init_list |-> aux.init_list]
    /\ FrontUnchanged

\* TACGen.visitDeclaration; arrays is func.arrays afterwards
TacDeclaration ==
    /\ aux.pass = "named"
    /\ aux' = [pass |-> "declared", dims |-> aux.dims, given |-> aux.given,
               init_list |-> aux.init_list, size |-> aux.size,
               f |-> TACGenVisitDeclaration(FuncVisitor0(0), aux.size, aux.initValue),
               arrays |-> <<[base |-> 0, size |-> aux.size]>>]
    /\ FrontUnchanged

NextDecl == NamerDeclaration \/ NamerRaise \/ TacDeclaration

SpecDecl == InitDecl /\ [][NextDecl]_vars

----------------------------------------------------------------------------
(* Loops: TACGen.visitWhile, visitFor, visitDoWhile, visitBreak and        *)
(* visitContinue over statements [k |-> "break"], [k |-> "continue"] and   *)
(* [k |-> "while" | "for" | "do", body |-> <<statements>>].  The code of a  *)
(* loop's init, cond and update expressions is one instruction each.  The  *)
(* visitor keeps, beside the TAC, the loops in the order they were opened  *)
(* (kinds) and the positions of the jumps of break and continue (notes).   *)

MaxNest == 3                         \* depth of loop nesting

Break == [k |-> "break"]
Continue == [k |-> "continue"]
LoopKinds == {"while", "for", "do"}

\* a body is a statement, or a statement followed by break or continue
Bodies(S) == {<<x>> : x \in S} \cup {<<x, y>> : x \in S, y \in {Break, Continue}}
RECURSIVE Stmts(_)
Stmts(d) == {Break, Continue} \cup
            (IF d = 0 THEN {}
             ELSE {[k |-> kind, body |-> b] : kind \in LoopKinds, b \in Bodies(Stmts(d - 1))})

Mark(label) == [kind |-> "LABEL", opc |-> "Mark", label |-> label]
Branch(target) == [kind |-> "JMP", opc |-> "Branch", target |-> target]
CondBranch(target) == [kind |-> "COND_JMP", opc |-> "CondBranch", target |-> target]
ExprCode(what) == [kind |-> "SEQ", opc |-> what]

\* FuncVisitor: labels are numbered from 0 in the order freshLabel hands them
\* out; openLoop and closeLoop push and pop the labels of the current loop
LoopVisitor0 == [nextLabel |-> 0, seq |-> <<>>, loops |-> <<>>, kinds |-> <<>>, notes |-> {}]
freshLabels(f, kind) == [f EXCEPT !.nextLabel = @ + 3, !.kinds = Append(@, kind)]
openLoop(f, breakLabel, continueLabel) ==
    [f EXCEPT !.loops = Append(@, [breakLabel |-> breakLabel,
                                   continueLabel |-> continueLabel])]
closeLoop(f) == [f EXCEPT !.loops = SubSeq(@, 1, Len(@) - 1)]
getBreakLabel(f) == f.loops[Len(f.loops)].breakLabel
getContinueLabel(f) == f.loops[Len(f.loops)].continueLabel
mvVisitLabel(f, label) == [f EXCEPT !.seq = Append(@, Mark(label))]
mvVisitBranch(f, target) == [f EXCEPT !.seq = Append(@, Branch(target))]
mvVisitCondBranch(f, target) == [f EXCEPT !.seq = Append(@, CondBranch(target))]
mvAccept(f, what) == [f EXCEPT !.seq = Append(@, ExprCode(what))]
Note(f, k) == [f EXCEPT !.notes = @ \cup {<<Len(f.seq), k>>}]

RECURSIVE tacVisit(_, _)
RECURSIVE tacVisitAll(_, _, _)

\* TACGen.visitBreak, visitContinue
visitBreak(f) == Note(mvVisitBranch(f, getBreakLabel(f)), "break")
visitContinue(f) == Note(mvVisitBranch(f, getContinueLabel(f)), "continue")

\* the part of a loop after its body: loopLabel, then code, then the jump to
\* beginLabel (while, for) and breakLabel
loopTail(f, b, code) ==
    closeLoop(mvVisitLabel(mvVisitBranch(code, b), b + 2))

\* TACGen.visitWhile: beginLabel b, loopLabel b + 1, breakLabel b + 2
visitWhile(f, stmt) ==
    loopTail(f, f.nextLabel,
             mvVisitLabel(
                tacVisitAll(mvVisitCondBranch(
                               mvAccept(mvVisitLabel(openLoop(freshLabels(f, "while"),
                                                              f.nextLabel + 2, f.nextLabel + 1),
                                                     f.nextLabel),
                                        "Cond"),
                               f.nextLabel + 2),
                            stmt.body, 1),
                f.nextLabel + 1))

\* variant: the loop label follows the update
visitFor_LabelAfterUpdate(f, stmt) ==
    loopTail(f, f.nextLabel,
             mvVisitLabel(
                mvAccept(
                   tacVisitAll(mvVisitCondBranch(
                                  mvAccept(mvVisitLabel(
                                              mvAccept(openLoop(freshLabels(f, "for"),
                                                                f.nextLabel + 2,
                                                                f.nextLabel + 1),
                                                       "Init"),
                                              f.nextLabel),
                                           "Cond"),
                                  f.nextLabel + 2),
                               stmt.body, 1),
                   "Update"),
                f.nextLabel + 1))

\* TACGen.visitFor
visitFor(f, stmt) ==
    loopTail(f, f.nextLabel,
             mvAccept(
                mvVisitLabel(
                   tacVisitAll(mvVisitCondBranch(
                                  mvAccept(mvVisitLabel(
                                              mvAccept(openLoop(freshLabels(f, "for"),
                                                                f.nextLabel + 2,
                                                                f.nextLabel + 1),
                                                       "Init"),
                                              f.nextLabel),
                                           "Cond"),
                                  f.nextLabel + 2),
                               stmt.body, 1),
                   f.nextLabel + 1),
                "Update"))

\* TACGen.visitDoWhile
visitDoWhile(f, stmt) ==
    loopTail(f, f.nextLabel,
             mvVisitCondBranch(
                mvAccept(
                   mvVisitLabel(
                      tacVisitAll(mvVisitLabel(openLoop(freshLabels(f, "do"),
                                                        f.nextLabel + 2, f.nextLabel + 1),
                                               f.nextLabel),
                                  stmt.body, 1),
                      f.nextLabel + 1),
                   "Cond"),
                f.nextLabel + 2))

tacVisit(f, stmt) ==
    IF stmt.k = "break" THEN visitBreak(f)
    ELSE IF stmt.k = "continue" THEN visitContinue(f)
    ELSE IF stmt.k = "while" THEN visitWhile(f, stmt)
    ELSE IF stmt.k = "for" THEN visitFor(f, stmt)
    ELSE visitDoWhile(f, stmt)

\* Block: the statements of a body in order
tacVisitAll(f, body, i) ==
    IF i > Len(body) THEN f ELSE tacVisitAll(tacVisit(f, body[i]), body, i + 1)

InitLoop ==
    /\ Allocator0
    /\ aux \in {[pass |-> "loop", stmt |-> x] : x \in Stmts(MaxNest) \ {Break, Continue}}

TacLoop ==
    /\ aux.pass = "loop"
    /\ aux' = [pass |-> "tac", stmt |-> aux.stmt, f |-> tacVisit(LoopVisitor0, aux.stmt)]
    /\ FrontUnchanged

NextLoop == TacLoop

SpecLoop == InitLoop /\ [][NextLoop]_vars

----------------------------------------------------------------------------
(* Conditional expressions: TACGen.visitCondExpr over expressions          *)
(* [k |-> "lit", value], [k |-> "ident"] (the parameter, temp 0) and       *)
(* [k |-> "cond", cond, then, otherwise], and the generated TAC run with   *)
(* the parameter's value a.  The visitor notes each conditional            *)
(* expression with the position of its branch (notes).                     *)

MaxCondDepth == 2                    \* nesting of conditional expressions

IntLiteral(value) == [k |-> "lit", value |-> value]
Identifier == [k |-> "ident"]
ConditionExpression(c, t, e) == [k |-> "cond", cond |-> c, then |-> t, otherwise |-> e]
Leaves == {IntLiteral(5), IntLiteral(0), Identifier}

\* conditional expressions with one operand of depth d - 1 and leaves elsewhere
RECURSIVE Exprs(_)
Exprs(d) ==
    Leaves \cup
    (IF d = 0 THEN {}
     ELSE {ConditionExpression(c, t, e) : c \in Exprs(d - 1), t \in Leaves, e \in Leaves}
          \cup {ConditionExpression(c, t, e) : c \in Leaves, t \in Exprs(d - 1), e \in Leaves}
          \cup {ConditionExpression(c, t, e) : c \in Leaves, t \in Leaves, e \in Exprs(d - 1)})

Assign(dst, src) ==
    [kind |-> "SEQ", dsts |-> <<Tm(dst)>>, srcs |-> <<Tm(src)>>, opc |-> "Assign"]
CondBranchBEQ(cond, target) ==
    [kind |-> "COND_JMP", dsts |-> <<>>, srcs |-> <<Tm(cond)>>, opc |-> "CondBranch",
     op |-> "BEQ", target |-> target]

\* FuncVisitor of a function with one parameter
CondVisitor0 == [nextTemp |-> 1, nextLabel |-> 0, seq |-> <<>>, val |-> NoTemp, notes |-> {}]
mvVisitAssignment(f, dst, src) ==
    [f EXCEPT !.seq = Append(@, Assign(dst, src)), !.val = dst]
mvVisitCondBranchBEQ(f, cond, target) ==
    [f EXCEPT !.seq = Append(@, CondBranchBEQ(cond, target))]
\* skipLabel = freshLabel(), exitLabel = freshLabel(), temp = freshTemp()
freshCond(f, expr) ==
    [f EXCEPT !.nextLabel = @ + 2, !.nextTemp = @ + 1,
              !.notes = @ \cup {[beq |-> Len(f.seq) + 1, skip |-> f.nextLabel,
                                 r |-> f.nextTemp, expr |-> expr]}]

RECURSIVE visitExpr(_, _)

\* visitCondExpr, lines 273-274, f8 the visitor after the otherwise arm
condExit(f8, skip, r) ==
    [mvVisitLabel(mvVisitAssignment(f8, r, f8.val), skip + 1) EXCEPT !.val = r]

\* variant: no jump to the exit label after the then arm
condElse_NoExitBranch(f4, skip, r, expr) ==
    condExit(visitExpr(mvVisitLabel(mvVisitAssignment(f4, r, f4.val), skip),
                       expr.otherwise),
             skip, r)

\* visitCondExpr, lines 268-272, f4 the visitor after the then arm
condElse(f4, skip, r, expr) ==
    condExit(visitExpr(mvVisitLabel(mvVisitBranch(mvVisitAssignment(f4, r, f4.val),
                                                  skip + 1),
                                    skip),
                       expr.otherwise),
             skip, r)

\* visitCondExpr, lines 263-267, f1 the visitor after the condition
condThen(f1, expr) ==
    condElse(visitExpr(mvVisitCondBranchBEQ(freshCond(f1, expr), f1.val, f1.nextLabel),
                       expr.then),
             f1.nextLabel, f1.nextTemp, expr)

\* TACGen.visitCondExpr
visitCondExpr(f, expr) == condThen(visitExpr(f, expr.cond), expr)

\* TACGen.visitIntLiteral, visitIdentifier (a local symbol: its temp), visitCondExpr
visitExpr(f, expr) ==
    IF expr.k = "lit" THEN mvVisitLoad(f, expr.value)
    ELSE IF expr.k = "ident" THEN [f EXCEPT !.val = 0]
    ELSE visitCondExpr(f, expr)

\* the TAC run from position p: env the temps' values (-1: not written), ran
\* the positions executed
LabelPos(seq, label) == CHOOSE p \in DOMAIN seq : seq[p] = Mark(label)
Undef == -1
RECURSIVE RunFlow(_, _, _, _)
RunFlow(seq, p, env, ran) ==
    IF p > Len(seq) THEN [env |-> env, ran |-> ran]
    ELSE IF seq[p].opc = "LoadImm4"
         THEN RunFlow(seq, p + 1, [env EXCEPT ![seq[p].dsts[1].temp] = seq[p].value],
                      ran \cup {p})
    ELSE IF seq[p].opc = "Assign"
         THEN RunFlow(seq, p + 1,
                      [env EXCEPT ![seq[p].dsts[1].temp] = env[seq[p].srcs[1].temp]],
                      ran \cup {p})
    ELSE IF seq[p].opc = "Branch"
         THEN RunFlow(seq, LabelPos(seq, seq[p].target), env, ran \cup {p})
    ELSE IF seq[p].opc = "CondBranch"
         THEN RunFlow(seq, IF env[seq[p].srcs[1].temp] = 0
                           THEN LabelPos(seq, seq[p].target) ELSE p + 1,
                      env, ran \cup {p})
    ELSE RunFlow(seq, p + 1, env, ran \cup {p})

ParamValues == {0, 1, Word(65535, 65535)}

InitCond ==
    /\ Allocator0
    /\ aux \in {[pass |-> "expr", expr |-> x, a |-> a] :
                  x \in Exprs(MaxCondDepth) \ Leaves, a \in ParamValues}

TacCond ==
    /\ aux.pass = "expr"
    /\ aux' = [pass |-> "tac", expr |-> aux.expr, a |-> aux.a,
               f |-> visitExpr(CondVisitor0, aux.expr)]
    /\ FrontUnchanged

RunCond ==
    /\ aux.pass = "tac"
    /\ aux' = [pass |-> "ran", expr |-> aux.expr, a |-> aux.a, f |-> aux.f,
               out |-> RunFlow(aux.f.seq, 1,
                               [t \in 0..(aux.f.nextTemp - 1) |->
                                  IF t = 0 THEN aux.a ELSE Undef],
                               {})]
    /\ FrontUnchanged

NextCond == TacCond \/ RunCond

SpecCond == InitCond /\ [][NextCond]_vars

----------------------------------------------------------------------------
(* Properties *)

\* a basic block is being allocated
InBlock == pc \in {"body", "pushed", "saved", "popped", "called", "freed", "retsaved"}

\* a whole Call sequence has just been allocated
AfterCall == pc = "body" /\ loc # NoLoc

\* a function has just been finalised by emitEnd
AfterEmitEnd == pc = "idle" /\ nfuncs > 0

\* C1: at every point of the allocation of a basic block no two occupied
\* registers carry the same temp and no two temp indices of bindings map to
\* the same register
C1_AtMostOneBinding ==
    InBlock =>
       /\ \A r1, r2 \in Regs :
             r1 # r2 /\ occupied[r1] /\ occupied[r2] => temp[r1] # temp[r2]
       /\ \A t1, t2 \in Temps :
             t1 # t2 /\ bindings[t1] # NoReg => bindings[t1] # bindings[t2]

\* C2: every emitted instruction that reads temp t through register r finds
\* r written for t or loaded from t's slot earlier in the block (or bound to
\* t at the entry of block 0), not rebound, popped into or passed over a call
\* since
C2_ReadsJustified == mach.justOK

\* SP movements of a Call sequence with n arguments
ExpectedSpMoves(n) ==
    [i \in 1..n |-> -4] \o [i \in 1..Min(n, NumArgRegs) |-> 4]
    \o (IF n > NumArgRegs THEN <<4 * (n - NumArgRegs)>> ELSE <<>>)

\* what the offset bookkeeping of a Call sequence restores
CallBalanced ==
    /\ SumSeq(hist.callDeltas) = 0
    /\ hist.spMoves = ExpectedSpMoves(Len(loc.args))
    /\ hist.callDeltas = [i \in DOMAIN hist.spMoves |-> -hist.spMoves[i]]
    /\ mach.sp = hist.pre.sp
    /\ \A t \in Temps : hist.pre.offsets[t] # NoOff => offsets[t] = hist.pre.offsets[t]
    /\ arraySPOffsets = hist.pre.arraySPOffsets

\* spill slots created during the Call sequence
NewSlots == {t \in Temps : hist.pre.offsets[t] = NoOff /\ offsets[t] # NoOff}

\* C3 as stated: after every Call sequence the changeOffset deltas sum to
\* zero and match the SP movements, and nextLocalOffset and every slot and
\* array offset recorded before the call have their pre-call values
C3_Original ==
    AfterCall => CallBalanced /\ nextLocalOffset = hist.pre.nextLocalOffset

\* C3 (amended): after every Call sequence the changeOffset deltas sum to
\* zero and match the SP movements, every slot and array offset recorded
\* before the call has its pre-call value, and nextLocalOffset is its
\* pre-call value plus 4 for every spill slot created during the sequence
C3_OffsetsRestored ==
    AfterCall => /\ CallBalanced
                 /\ nextLocalOffset = hist.pre.nextLocalOffset + 4 * Cardinality(NewSlots)

C3_Witness ==
    /\ AfterCall
    /\ Len(loc.args) = 10
    /\ arraySPOffsets # <<>>
    /\ \E t \in Temps : hist.pre.offsets[t] # NoOff
    /\ NewSlots # {}

\* C4: at the call instruction argument i is in A_i for i < min(n, 8) and
\* at [SP + 4*(i-8)] for i >= 8; afterwards the stack-passed words are freed
\* by one SP += 4*(n-8), and nothing is freed when n <= 8
C4_ArgumentsPlaced ==
    LET n == Len(loc.args)
        c == mach.atCall
    IN /\ pc = "called" =>
            \A i \in 0..(n - 1) :
               IF i < NumArgRegs THEN c.holds[ArgRegs[i + 1]] = loc.args[i + 1]
               ELSE Get(c.mem, c.sp + 4 * (i - NumArgRegs)) = loc.args[i + 1]
       /\ pc = "freed" =>
            /\ buf = IF n > NumArgRegs
                     THEN <<[op |-> "spadd", imm |-> 4 * (n - NumArgRegs)]>> ELSE <<>>
            /\ mach.sp = hist.pre.sp

\* C5 as stated: every caller-save register that holds a live-out temp once
\* the arguments are pushed is loaded back, after the return value is saved,
\* from the slot it was stored to, and holds the temp's value again
C5_CallerSaveRestored ==
    AfterCall =>
       \A i \in DOMAIN hist.saved :
          LET x == hist.saved[i]
          IN /\ \E j \in DOMAIN buf :
                   /\ buf[j].op = "lw" /\ buf[j].reg = x.reg /\ buf[j].base = "sp"
                   /\ mach.sp + buf[j].off = x.addr
             /\ mach.holds[x.reg] = x.val

\* at the call instruction the word pushed for argument 8+k is k words
\* above SP, which is the callee's SP at function entry
StackArgsAtCall ==
    pc = "called" =>
       \A k \in 0..(Len(loc.args) - NumArgRegs - 1) :
          Get(mach.atCall.pushed, mach.atCall.sp + 4 * k) = loc.args[NumArgRegs + k + 1]

\* C6: the k-th stack-passed parameter is loaded from FP + 4k while it has
\* no spill slot, FP being SP at function entry, where the caller's Call
\* sequence left argument 8+k; once it has a slot it is loaded from the slot
C6_OverflowParams ==
    /\ mach.fpOK
    /\ StackArgsAtCall
    /\ AfterEmitEnd => last.fpInBody = Val("addr", "", 0)

C6_Witness ==
    /\ np = 10
    /\ mach.slotAt[8] # NoOff
    /\ \E j \in DOMAIN buf :
          buf[j].op = "lw" /\ buf[j].why = "reload" /\ buf[j].temp = 8 /\ buf[j].base = "sp"
    /\ mach.dirty = {}

IsStore(x) == x.op = "sw"
IsLoad(x) == x.op = "lw"
RegOff(q) == {<<q[i].reg, q[i].off>> : i \in DOMAIN q}

\* C7: the epilogue reloads RA, FP and the used callee-saved registers from
\* the offsets the prologue stored them at (RA at 4|CS|+4, FP at 4|CS|, the
\* i-th callee-saved register at 4i) and adds back the frameSize, so SP, FP,
\* RA and the callee-saved registers written in the body have their
\* function-entry values at ret
C7_EpilogueSymmetric ==
    AfterEmitEnd =>
       LET st == RegOff(SelectSeq(buf, IsStore))
           ld == RegOff(SelectSeq(buf, IsLoad))
       IN /\ st = ld
          /\ <<"ra", 4 * NumCS + 4>> \in st
          /\ <<"fp", 4 * NumCS>> \in st
          /\ \A i \in 0..(NumCS - 1) :
                used[CalleeSaved[i + 1]] <=> <<CalleeSaved[i + 1], 4 * i>> \in st
          /\ Cardinality(st) = 2 + Cardinality({r \in Range(CalleeSaved) : used[r]})
          /\ SpMovesOf(buf) = <<-last.frameSize, last.frameSize>>
          /\ last.spAtRet = 0
          /\ last.val["ra"] = Val("in", "ra", 0)
          /\ last.val["fp"] = Val("in", "fp", 0)
          /\ \A r \in Range(CalleeSaved) : last.val[r] = Val("in", r, 0)

C7_Witness ==
    /\ AfterEmitEnd
    /\ "s1" \in last.savedCS
    /\ "s1" \in last.wr
    /\ "ra" \in last.wr
    /\ last.frameSize > FrameBase

\* C8 as stated: a callee-saved register is saved in a function's prologue
\* only if it was bound during the allocation of that same function
C8_SavedOnlyIfBound ==
    AfterEmitEnd => last.savedCS \subseteq last.bound

\* frame position of a recorded offset
Pos(off) == off - hist.delta

\* C9: a temp's spill slot never changes its frame position, different temps
\* have different slots, and no slot overlaps the save area or a local array
C9_SlotsFixed ==
    LET S == {t \in Temps : offsets[t] # NoOff}
    IN /\ \A t \in S : /\ Pos(offsets[t]) = hist.slotPos[t]
                       /\ Pos(offsets[t]) >= FrameBase
                       /\ \A i \in DOMAIN arraySPOffsets :
                             \/ Pos(offsets[t]) + 4 <= Pos(arraySPOffsets[i])
                             \/ Pos(offsets[t]) >= Pos(arraySPOffsets[i]) + hist.arrays[i]
       /\ \A t \in Temps : hist.slotPos[t] # NoOff => t \in S
       /\ \A t1, t2 \in S : t1 # t2 => offsets[t1] # offsets[t2]
       /\ mach.addrOK

C9_Witness ==
    /\ Cardinality({t \in Temps : offsets[t] # NoOff}) >= 2
    /\ arraySPOffsets # <<>>
    /\ hist.delta > 0
    /\ \E j \in DOMAIN buf : buf[j].op = "sw" /\ buf[j].why = "spill"

\* C10: the frameSize of the prologue and epilogue is nextLocalOffset at
\* emitEnd, at least 4|CS| + 8 and a multiple of 4
C10_FrameSize ==
    AfterEmitEnd =>
       /\ last.frameSize = nextLocalOffset
       /\ buf[1] = [op |-> "spadd", imm |-> -last.frameSize]
       /\ buf[Len(buf)] = [op |-> "spadd", imm |-> last.frameSize]
       /\ last.frameSize >= 4 * NumCS + 8
       /\ last.frameSize % 4 = 0

C10_Witness ==
    /\ AfterEmitEnd
    /\ hist.arrays # <<>>
    /\ last.frameSize > FrameBase + SumSeq(hist.arrays)


\* a record of the buffer that is a control transfer out of the block
IsTerminator(x) == x.op = "native" /\ x.ni.kind \in {"JMP", "COND_JMP", "RET"}

\* C11: among the records a block exit leaves in the buffer, every
\* live-out store comes before every occurrence of the block's terminator
\* (no control transfer out of the block precedes a live-out store).
C11_StoresBeforeTerminator ==
    pc = "blocks" =>
        \A j \in Range(hist.liveOutStores) :
            \A i \in DOMAIN buf : IsTerminator(buf[i]) => j < i


\* records of the body of `return N;`
IsLi(x, r, n) == x.op = "native" /\ x.ni.opc = "li" /\ x.ni.dsts = <<r>> /\ x.ni.value = n
IsMv(x, d, r) == x.op = "native" /\ x.ni.opc = "mv" /\ x.ni.dsts = <<d>> /\ x.ni.srcs = <<r>>
IsJ(x) == x.op = "native" /\ x.ni.opc = "j"

\* C12 as stated: the body of `int f() { return N; }` is exactly `li a0, N`
\* followed by the jump to the epilogue label.
C12_Original ==
    aux.pass = "done" =>
        /\ Len(aux.body) = 2
        /\ IsLi(aux.body[1], "a0", aux.N)
        /\ IsJ(aux.body[2])

\* C12, amended: the function compiles to prologue, body, epilogue, and the
\* body is the load-immediate of N into the first allocatable register, the
\* move of that register into a0, and then only jumps to the epilogue label
\* (at least one).
C12_ReturnLiteral ==
    aux.pass = "done" =>
        /\ aux.out = prologue(Cur) \o aux.body \o epilogue(Cur)
        /\ Len(aux.body) >= 3
        /\ IsLi(aux.body[1], AllocatableRegs[1], aux.N)
        /\ IsMv(aux.body[2], "a0", AllocatableRegs[1])
        /\ \A i \in 3..Len(aux.body) : IsJ(aux.body[i])

C12_Witness == aux.pass = "done" /\ aux.N = 7 /\ Len(aux.body) >= 3


\* the temp of the load has a spill slot / an FP parameter offset
HasSlot == aux.s.offsets[aux.temp] # NoOff
HasFPOffset == aux.temp >= NumArgRegs /\ aux.temp < aux.s.np
IsLw(x, r, base, off) == x.op = "lw" /\ x.reg = r /\ x.base = base /\ x.off = off

\* C13: emitLoadFromStack raises exactly when the temp has neither a spill
\* slot nor an FP parameter offset, and then appends nothing; in every other
\* case it appends exactly one load, from the SP-relative slot if there is
\* one and from the FP offset 4 * (index among the overflow parameters)
\* otherwise.
C13_LoadFromStack ==
    aux.pass = "loaded" =>
        /\ aux.res.err <=> (~HasSlot /\ ~HasFPOffset)
        /\ aux.res.err => aux.res.buf = aux.s.buf
        /\ ~aux.res.err =>
              /\ Len(aux.res.buf) = Len(aux.s.buf) + 1
              /\ SubSeq(aux.res.buf, 1, Len(aux.s.buf)) = aux.s.buf
              /\ LET x == aux.res.buf[Len(aux.res.buf)]
                 IN IF HasSlot
                    THEN IsLw(x, aux.reg, "sp", aux.s.offsets[aux.temp])
                    ELSE IsLw(x, aux.reg, "fp", 4 * (aux.temp - NumArgRegs))

\* a stack-passed parameter that has a spill slot was loaded
C13_Witness == aux.pass = "loaded" /\ HasSlot /\ HasFPOffset /\ ~aux.res.err


\* the locations of the analysed graph
LiveLocs == {x \in (0..(MaxBlocks - 1)) \X (1..2) :
               x[1] \in DOMAIN aux.L /\ x[2] \in DOMAIN aux.L[x[1]].liveIn}
LocInstr(x) == aux.cfg[x[1] + 1].locs[x[2]]
LocLiveIn(x) == aux.L[x[1]].liveIn[x[2]]
LocLiveOut(x) == aux.L[x[1]].liveOut[x[2]]
IsLastLoc(x) == x[2] = Len(aux.cfg[x[1] + 1].locs)
OperandIndices(ops) == {ops[i].temp : i \in DOMAIN ops}

\* C14: at the fixed point every location satisfies
\* liveIn = use + (liveOut - def) with use the indices of the sources and def
\* the indices of the destinations of its instruction; every temp read is in
\* liveIn; below the last location liveOut is liveIn of the next location,
\* and liveOut of the last location of a block is the union of liveIn of the
\* first locations of the block's successors.
C14_LivenessEquations ==
    aux.pass = "fixed" =>
        \A x \in LiveLocs :
            /\ LocLiveIn(x) = OperandIndices(LocInstr(x).srcs)
                              \cup (LocLiveOut(x) \ OperandIndices(LocInstr(x).dsts))
            /\ OperandIndices(LocInstr(x).srcs) \subseteq LocLiveIn(x)
            /\ ~IsLastLoc(x) => LocLiveOut(x) = LocLiveIn(<<x[1], x[2] + 1>>)
            /\ IsLastLoc(x) => LocLiveOut(x) =
                                 UNION {LocLiveIn(<<b, 1>>) : b \in succ(aux.cfg, x[1])}

\* a fixed point of a graph with a loop in which a temp is live around the loop
C14_Witness ==
    /\ aux.pass = "fixed"
    /\ aux.passes >= 2
    /\ \E b \in DOMAIN aux.L : \E k \in succ(aux.cfg, b) : k <= b /\ LocLiveOut(<<b, 2>>) # {}

\* a pass only adds temps to the sets
LiveMono ==
    aux.pass = "live" =>
        \A b \in DOMAIN aux.L : \A i \in DOMAIN aux.L[b].liveIn :
            /\ aux.L[b].liveIn[i] \subseteq aux'.L[b].liveIn[i]
            /\ aux.L[b].liveOut[i] \subseteq aux'.L[b].liveOut[i]

\* C15: started from empty sets, the passes only ever add temps to the
\* liveIn/liveOut sets, and the analysis reaches its fixed point, for every
\* graph, with loops and with unreachable blocks.
C15_MonotoneTerminates == [][LiveMono]_vars /\ <>(aux.pass = "fixed")

\* a fixed point reached after several passes on a graph with a loop and an
\* unreachable block
C15_Witness ==
    /\ aux.pass = "fixed"
    /\ aux.passes >= 2
    /\ \E b \in DOMAIN aux.L : unreachable(aux.cfg, b)
    /\ \E b \in DOMAIN aux.L : \E k \in succ(aux.cfg, b) : k <= b


\* the product of the declared lengths d_m, m >= j
RECURSIVE ProdFrom(_, _)
ProdFrom(dims, j) == IF j > Len(dims) THEN 1 ELSE dims[j] * ProdFrom(dims, j + 1)
\* the sum over j' >= j of i_j' times the product of d_m, m > j'
RECURSIVE SumStrides(_, _, _)
SumStrides(idx, dims, j) ==
    IF j > Len(idx) THEN 0
    ELSE AddW(MulW(idx[j], ProdFrom(dims, j + 1)), SumStrides(idx, dims, j + 1))

\* C16: for a[i1]...[ik] on an array declared d1 x ... x dk the value of the
\* address temp is base + 4 * sum_j (i_j * prod_{m>j} d_m) in 32-bit
\* arithmetic, for a local array, a global array and an array parameter.
C16_AddressCompute ==
    aux.pass = "run" =>
        aux.env[aux.f.val] = AddW(aux.base, MulW(4, SumStrides(aux.idx, aux.dims, 1)))

\* A[1][3] of int A[3][4], each kind of array: base + 16 + 12
C16_Witness ==
    /\ aux.pass = "run"
    /\ aux.dims = <<3, 4>>
    /\ aux.idx = <<1, 3>>
    /\ aux.kind = "global"
    /\ aux.env[aux.f.val] = aux.base + 28
    /\ aux.base = 64


\* the C result of a comparison or logical operation on 32-bit ints
CResult(op, a, b) ==
    IF op = "EQU" THEN a = b
    ELSE IF op = "NEQ" THEN a # b
    ELSE IF op = "LEQ" THEN a <= b
    ELSE IF op = "GEQ" THEN a >= b
    ELSE IF op = "AND" THEN a # 0 /\ b # 0
    ELSE a # 0 \/ b # 0

\* C17: for all 32-bit a and b, after the native sequence selected for
\* ==, !=, <=, >=, && or || the destination holds 1 when the C relation or
\* logical operation holds of a and b, and 0 otherwise.
C17_SelectedResult ==
    (aux.pass = "ran" /\ aux.instr.opc # "SUB") =>
        aux.env[2] = IF CResult(aux.instr.opc, aux.a, aux.b) THEN 1 ELSE 0

\* -2^31 <= 2^31-1: the subtraction of the two wraps, the comparison does not
C17_Witness ==
    /\ aux.pass = "ran"
    /\ aux.instr.opc = "LEQ"
    /\ aux.a < 0 /\ aux.b > 2 /\ SubW(aux.a, aux.b) > 0
    /\ aux.env[2] = 1


\* block b is the end of a path of successor edges that starts at block 0
PathTo(b) ==
    \E k \in 1..Len(aux.cfg) :
        \E q \in [1..k -> 0..(Len(aux.cfg) - 1)] :
            /\ q[1] = 0
            /\ q[k] = b
            /\ \A j \in 1..(k - 1) : q[j + 1] \in succ(aux.cfg, q[j])
EmittedFor(b) == {i \in DOMAIN aux.s.buf : aux.done[b + 1].from <= i /\ i <= aux.done[b + 1].to}

C19_StoresCurrentValue == bbId <= 1 => mach.stOK

\* C20: within one allocForLoc call two different source temps of the
\* instruction are never given the same register.
C20_DistinctSourceRegisters ==
    \A i \in DOMAIN buf :
        buf[i].op = "native" =>
            \A j, k \in DOMAIN buf[i].stemps :
                buf[i].stemps[j] # buf[i].stemps[k] => buf[i].ni.srcs[j] # buf[i].ni.srcs[k]


\* the instruction allocated by the last step is a sequential instruction
\* of the current block; live is then its liveOut
JustAllocated ==
    /\ pc = "body"
    /\ bbLocs > 0
    /\ buf # <<>>
    /\ buf[Len(buf)].op = "native"
    /\ buf[Len(buf)].ni.kind = "SEQ"

\* C21 as claimed: when a register is chosen for the destination of an
\* instruction one of whose source temps is read for the last time by that
\* instruction, the source counts as dead: the destination gets a register
\* without a store (a store right before the instruction is the round-robin
\* spill of the destination's allocation).
C21_Original ==
    (/\ JustAllocated
     /\ Len(buf) > 1
     /\ \E j \in DOMAIN buf[Len(buf)].stemps :
            /\ buf[Len(buf)].stemps[j] \notin live
            /\ buf[Len(buf)].stemps[j] \notin Range(buf[Len(buf)].dtemps))
    => buf[Len(buf) - 1].op # "sw"

\* the destination of buf[i] is a temp that is no source of the instruction
\* and has the register of one of its sources
TookSourceRegister(i) ==
    /\ buf[i].op = "native"
    /\ buf[i].ni.kind = "SEQ"
    /\ Len(buf[i].dtemps) = 1
    /\ buf[i].dtemps[1] # NoTemp
    /\ buf[i].dtemps[1] \notin Range(buf[i].stemps)
    /\ buf[i].ni.dsts[1] \in Range(buf[i].ni.srcs)

\* C21: the live set used for a destination of instruction I is liveIn of I,
\* which holds every source of I: a source counts as live, even when I is
\* its last read, and the destination takes over the register of a source
\* only as the round-robin victim, right after the store of that register.
C21_SourceStaysLive ==
    \A i \in DOMAIN buf :
        TookSourceRegister(i) =>
            /\ i > 1
            /\ buf[i - 1].op = "sw"
            /\ buf[i - 1].reg = buf[i].ni.dsts[1]

\* a destination that took over the register of a source that is dead after
\* the instruction
C21_Witness ==
    /\ JustAllocated
    /\ TookSourceRegister(Len(buf))
    /\ \E j \in DOMAIN buf[Len(buf)].stemps :
            /\ buf[Len(buf)].stemps[j] \notin live
            /\ buf[Len(buf)].ni.srcs[j] = buf[Len(buf)].ni.dsts[1]

\* before the last call every allocatable register held a temp of the live set
AllOccupiedLive ==
    \A i \in 1..NumAlloc :
        /\ aux.prev.occupied[AllocatableRegs[i]]
        /\ aux.prev.temp[AllocatableRegs[i]] \in aux.live
RRVictim == AllocatableRegs[aux.prev.regIndex + 1]
NewBuf == SubSeq(aux.s.buf, Len(aux.prev.buf) + 1, Len(aux.s.buf))

\* C22: allocRegFor takes the round-robin path only when every allocatable
\* register holds a temp of the live set; on that path the victim is stored
\* to its slot before the register is rebound and regIndex advances by 1
\* modulo the number of allocatable registers; regIndex stays in
\* [0, NumAlloc) and a block entry leaves it alone.
C22_RoundRobin ==
    aux.pass = "rr" =>
        /\ aux.s.regIndex \in 0..(NumAlloc - 1)
        /\ aux.kind = "entry" => aux.s.regIndex = aux.prev.regIndex
        /\ aux.kind = "alloc" =>
             IF aux.prev.bindings[aux.t] = NoReg /\ AllOccupiedLive
             THEN /\ aux.s.regIndex = (aux.prev.regIndex + 1) % NumAlloc
                  /\ NewBuf # <<>>
                  /\ NewBuf[1].op = "sw"
                  /\ NewBuf[1].reg = RRVictim
                  /\ NewBuf[1].temp = aux.prev.temp[RRVictim]
                  /\ NewBuf[1].off = aux.s.offsets[aux.prev.temp[RRVictim]]
                  /\ aux.s.offsets[aux.prev.temp[RRVictim]] # NoOff
                  /\ aux.s.bindings[aux.prev.temp[RRVictim]] = NoReg
                  /\ aux.s.temp[RRVictim] = aux.t
             ELSE /\ aux.s.regIndex = aux.prev.regIndex
                  /\ \A i \in DOMAIN NewBuf : NewBuf[i].op # "sw"

\* a second eviction: the cursor stands at 2 after two round-robin victims
C22_Witness ==
    /\ aux.pass = "rr"
    /\ aux.kind = "alloc"
    /\ aux.prev.regIndex = 1
    /\ aux.s.regIndex = 2
    /\ ~aux.s.err

\* C23: in a block, a temp is evicted without a store only when it is not in
\* liveIn of the instruction being allocated, and a temp evicted this way is
\* neither loaded from the frame, pushed nor read by an instruction before an
\* instruction has written it again
CurLiveIn == IF pc = "body" THEN live ELSE loc.liveIn
InBlockStep == pc \in {"body", "pushed", "saved", "popped", "called", "freed", "retsaved"}
StolenNow == hist'.stolen \ hist.stolen
C24_OperandsPreserved ==
    aux.pass = "ran" /\ aux.instr.opc = "AND" =>
        /\ aux.env[aux.instr.srcs[1].temp] = aux.a
        /\ aux.env[aux.instr.srcs[2].temp] = aux.b

\* C25: the declaration of a local array without an initializer list emits
\* the Alloc and no Store
C25_StoresOnlyWithInitializer ==
    aux.pass = "declared" /\ ~aux.given =>
        \A i \in DOMAIN aux.f.seq : aux.f.seq[i].opc # "Store"

\* C26: the local arrays of a function have consecutive frame regions of
\* their sizes from 4|CS| + 8 on, in the order they were recorded, which are
\* pairwise disjoint and end at or below every spill slot
ArrayPos(i) == aux.s.arraySPOffsets[i] - 4 * aux.depth
SlotPos(t) == aux.s.offsets[t] - 4 * aux.depth
C27_ParamRegistersHold ==
    aux.pass = "run" /\ aux.ran = 0 => aux.m.opOK

\* C28: the jump of a break or continue goes to the break label or the loop
\* label of the innermost loop around it (the outer loop's once a nested
\* loop has closed); from the loop label of a for the update runs and then
\* the condition, from the loop label of a do-while the condition runs
MarkPos(label) ==
    CHOOSE p \in DOMAIN aux.f.seq : aux.f.seq[p] = Mark(label)
Around(p) == {l \in 0..(Len(aux.f.kinds) - 1) :
                MarkPos(3 * l) < p /\ p < MarkPos(3 * l + 2)}
Innermost(p) == CHOOSE l \in Around(p) : \A l2 \in Around(p) : MarkPos(3 * l2) <= MarkPos(3 * l)
AfterLoopLabel(l, n) == aux.f.seq[MarkPos(3 * l + 1) + n]
C28_BreakContinueTargets ==
    aux.pass = "tac" =>
       \A x \in aux.f.notes :
          /\ Around(x[1]) # {}
          /\ aux.f.seq[x[1]] = Branch(3 * Innermost(x[1]) + (IF x[2] = "break" THEN 2 ELSE 1))
          /\ x[2] = "continue" /\ aux.f.kinds[Innermost(x[1]) + 1] = "for" =>
                /\ AfterLoopLabel(Innermost(x[1]), 1) = ExprCode("Update")
                /\ AfterLoopLabel(Innermost(x[1]), 2) = Branch(3 * Innermost(x[1]))
                /\ aux.f.seq[MarkPos(3 * Innermost(x[1])) + 1] = ExprCode("Cond")
          /\ x[2] = "continue" /\ aux.f.kinds[Innermost(x[1]) + 1] = "do" =>
                AfterLoopLabel(Innermost(x[1]), 1) = ExprCode("Cond")

C28_Witness ==
    /\ aux.pass = "tac"
    /\ aux.f.kinds[1] = "for"
    /\ \E x, y \in aux.f.notes :
          /\ x[2] = "continue" /\ Innermost(x[1]) = 0
          /\ y[2] = "break" /\ Innermost(y[1]) = 1 /\ y[1] < x[1]
          /\ MarkPos(5) < x[1]

\* the value of an expression when the parameter is a
RECURSIVE ValueOf(_, _)
ValueOf(expr, a) ==
    IF expr.k = "lit" THEN expr.value
    ELSE IF expr.k = "ident" THEN a
    ELSE IF ValueOf(expr.cond, a) # 0 THEN ValueOf(expr.then, a)
         ELSE ValueOf(expr.otherwise, a)

\* C29: for every conditional expression c ? t : e whose branch runs, the
\* code of exactly one arm runs, that of t when c is not zero and that of e
\* when it is zero, and the result temp holds that arm's value afterwards
ThenCode(n) == (n.beq + 1)..(MarkPos(n.skip) - 1)
ElseCode(n) == (MarkPos(n.skip) + 1)..(MarkPos(n.skip + 1) - 1)
CondValue(n) == aux.out.env[aux.f.seq[n.beq].srcs[1].temp]
C29_OneArmEvaluated ==
    aux.pass = "ran" =>
       \A n \in aux.f.notes :
          n.beq \in aux.out.ran =>
             /\ CondValue(n) = ValueOf(n.expr.cond, aux.a)
             /\ CondValue(n) # 0 => /\ ElseCode(n) \cap aux.out.ran = {}
                                    /\ MarkPos(n.skip) - 2 \in aux.out.ran
                                    /\ aux.out.env[n.r] = ValueOf(n.expr.then, aux.a)
             /\ CondValue(n) = 0 => /\ ThenCode(n) \cap aux.out.ran = {}
                                    /\ MarkPos(n.skip + 1) - 1 \in aux.out.ran
                                    /\ aux.out.env[n.r] = ValueOf(n.expr.otherwise, aux.a)
             /\ MarkPos(n.skip + 1) \in aux.out.ran

C29_Witness ==
    /\ aux.pass = "ran"
    /\ aux.a = 1
    /\ aux.expr.cond = Identifier
    /\ aux.expr.then.k = "cond" /\ aux.expr.then.cond = IntLiteral(0)
    /\ aux.expr.then.otherwise = Identifier
    /\ aux.out.env[aux.f.val] = 1
    /\ Cardinality({n \in aux.f.notes : n.beq \in aux.out.ran}) = 2

\* C30: toNative leaves the instruction as it was: after a block has been
\* allocated, the instruction allocated last (the block's last location) has
\* the destination and source temps it had before
LastLoc(b) == aux.cfg[b + 1].locs[Len(aux.cfg[b + 1].locs)]
C30_ToNativeRestores ==
    (aux.pass = "accept" /\ aux.next > 0 /\ ~aux.s.err
        /\ ~unreachable(aux.cfg, aux.next - 1))
    => aux.s.instr = LastLoc(aux.next - 1)

====
